---- MODULE Spec2Model ----
(***************************************************************************)
(* Options-strategy backtesting core of spac_strat:                        *)
(*   dynamic_helper.find_trades                  (Episode Detector)        *)
(*   dynamic_helper.select_option_contracts_batch (Contract Selector)      *)
(*   dynamic_helper_strats_pack.find_*_ids        (Strategy Builders)      *)
(* Tables are sequences or sets of records; float64 values are integers,   *)
(* with NaN a distinguished value that fails every comparison, as in       *)
(* numpy/pandas.  Percentages are compared by cross-multiplication, so     *)
(* that (b - a) / a >= T / 100 is 100 * (b - a) >= T * a for a > 0.        *)
(***************************************************************************)
EXTENDS Integers, Sequences, FiniteSets, TLC

\* ------------------------------------------------------------------ bounds
MaxRows == 4        \* rows of the price table, all tickers together
MaxHorizon == 2     \* in_x_days ranges over 1..MaxHorizon

\* np.nan / pd.NaT: a value outside every modelled range
NaN == 0 - 1000

IsNum(x) == x # NaN

\* float comparisons: False as soon as one side is NaN
Lt(a, b) == IsNum(a) /\ IsNum(b) /\ a < b
Le(a, b) == IsNum(a) /\ IsNum(b) /\ a <= b
Gt(a, b) == Lt(b, a)
Ge(a, b) == Le(b, a)
Abs(x) == IF x < 0 THEN 0 - x ELSE x

Tickers == <<"A", "B">>
Thresholds == {50, 100}
Directions == {"U", "D"}
PriceValues == {NaN, 0, 1, 2}

VARIABLES
    stock_data,     \* find_trades input: ticker -> prices in date order
    in_x_days,      \* find_trades input: horizon N
    up_x_pct,       \* find_trades input: threshold T (percent)
    direction,      \* find_trades input: "U" or "D"
    pc,             \* position in the running function
    candidates,     \* find_trades: candidate episodes, sorted (ticker, start_pos)
    ci,             \* find_trades: index of the candidate the greedy loop is at
    next_allowed,   \* find_trades: next_allowed of the current ticker group
    keep,           \* find_trades: indices of candidates kept so far
    out,            \* find_trades: the returned episode table
    options_data,   \* the option chain: a set of quote rows
    opt_cols,       \* the optional columns options_data carries
    requests,       \* select_option_contracts_batch input: request rows
    req_cols,       \* the target columns the requests carry
    kwargs,         \* select_option_contracts_batch input: keyword arguments
    sel_out,        \* select_option_contracts_batch: the returned table
    sel_error,      \* select_option_contracts_batch: the exception, or "none"
    trade_filter,   \* strategy builder input: the episode table
    strategy,       \* the strategy builder that is called
    params,         \* strategy builder input: its other arguments
    pos_out,        \* strategy builder: the Position table or the exception
    pos_first,      \* what an earlier call of the builder on these inputs gave
    option_chains,  \* pnl_transaction, truncate_trades_on_stops: the leg rows
    pnl_kwargs,     \* pnl_transaction, truncate_trades_on_stops: other arguments
    pnl_out,        \* pnl_transaction, truncate_trades_on_stops: what is returned
    leg_snap,       \* _max_loss_gain_from_legs: one row per leg
    trade_cost,     \* _max_loss_gain_from_legs: trade_filter_id -> cost basis
    risk_out,       \* _max_loss_gain_from_legs: the returned table
    keys,           \* get_option_chains input: the (id, start_date) pairs
    data,           \* get_option_chains input: the chain rows
    chains_out      \* get_option_chains: the returned table

ftVars == <<stock_data, in_x_days, up_x_pct, direction, candidates, ci,
            next_allowed, keep, out>>

selVars == <<options_data, opt_cols, requests, req_cols, kwargs, sel_out,
             sel_error>>

bldVars == <<trade_filter, strategy, params, pos_out, pos_first>>

pnlVars == <<option_chains, pnl_kwargs, pnl_out, leg_snap, trade_cost, risk_out>>

gocVars == <<keys, data, chains_out>>

vars == <<pc, ftVars, selVars, bldVars, pnlVars, gocVars>>

\* ============================================================ find_trades

\* all sequences over S of length exactly n
RECURSIVE SeqsOfLen(_, _)
SeqsOfLen(S, n) ==
    IF n = 0 THEN {<<>>}
    ELSE {Append(s, x) : s \in SeqsOfLen(S, n - 1), x \in S}

\* price tables with at most MaxRows rows over the two tickers
PriceTables ==
    UNION {
        {[t \in {"A", "B"} |-> IF t = "A" THEN a ELSE b] :
            a \in SeqsOfLen(PriceValues, la), b \in SeqsOfLen(PriceValues, lb)}
        : la \in 0..MaxRows, lb \in 0..1 }

\* df = stock_data[['stock_price']].reset_index().sort_values(["ticker","date"]):
\* one row per (ticker, date), ticker-major, date the trading-day index
RECURSIVE SortedFrame(_)
SortedFrame(k) ==
    IF k > Len(Tickers) THEN <<>>
    ELSE [i \in 1..Len(stock_data[Tickers[k]]) |->
             [ticker |-> Tickers[k], date |-> i - 1,
              stock_price |-> stock_data[Tickers[k]][i]]]
         \o SortedFrame(k + 1)

df == SortedFrame(1)

\* g['stock_price'].shift(-k), row i: the price k rows later in the same ticker
GroupShift(i, k) ==
    IF i + k <= Len(df) /\ df[i + k].ticker = df[i].ticker
    THEN df[i + k].stock_price ELSE NaN

\* g["date"].shift(-k), row i
GroupShiftDate(i, k) ==
    IF i + k <= Len(df) /\ df[i + k].ticker = df[i].ticker
    THEN df[i + k].date ELSE NaN

\* g.cumcount(): position of row i inside its ticker
Pos(i) == Cardinality({j \in 1..(i - 1) : df[j].ticker = df[i].ticker})

\* hit_mat[i, k-1]: pct_moves >= thr (U) or <= -thr (D); NaN where the start
\* price is not > 0 or the forward price is missing
Hit(i, k) ==
    LET s == df[i].stock_price
        f == GroupShift(i, k)
    IN  /\ Gt(s, 0)
        /\ IsNum(f)
        /\ IF direction = "U"
           THEN 100 * (f - s) >= up_x_pct * s
           ELSE 100 * (f - s) <= (0 - up_x_pct) * s

AnyHit(i) == \E k \in 1..in_x_days : Hit(i, k)

\* the latest hit offset in place of the earliest
FirstKLatest(i) ==
    CHOOSE k \in 1..in_x_days : Hit(i, k) /\ \A j \in (k + 1)..in_x_days : ~Hit(i, j)

\* np.argmax(hit_mat[i]) + 1: the earliest hit offset
FirstK(i) ==
    CHOOSE k \in 1..in_x_days : Hit(i, k) /\ \A j \in 1..(k - 1) : ~Hit(i, j)

\* the candidate episode of hit row i
Candidate(i) ==
    [ticker |-> df[i].ticker,
     episode_start_date |-> df[i].date,
     episode_end_date |-> GroupShiftDate(i, FirstK(i)),
     start_price |-> df[i].stock_price,
     end_price |-> GroupShift(i, FirstK(i)),
     days_to_threshold |-> FirstK(i),
     start_pos |-> Pos(i),
     end_pos |-> Pos(i) + FirstK(i)]

\* candidates in df order, which is (ticker, start_pos) order
HitRows == SelectSeq([i \in 1..Len(df) |-> i], AnyHit)

Candidates == [n \in 1..Len(HitRows) |-> Candidate(HitRows[n])]

\* next_allowed at candidate n: 0 at the first candidate of a ticker group
GroupNextAllowed(n) ==
    IF n = 1 \/ candidates[n].ticker # candidates[n - 1].ticker
    THEN 0 ELSE next_allowed

\* the next episode may start on the end row itself
AdvanceNoGap(ep) == ep

\* next_allowed = ep[i] + 1
Advance(ep) == ep + 1

\* picked: the kept candidates, in candidate order, with the returned columns
Returned(c) ==
    [ticker |-> c.ticker,
     episode_start_date |-> c.episode_start_date,
     episode_end_date |-> c.episode_end_date,
     start_price |-> c.start_price,
     end_price |-> c.end_price,
     days_to_threshold |-> c.days_to_threshold]

Picked ==
    LET idx == SelectSeq([n \in 1..Len(candidates) |-> n], LAMBDA n : n \in keep)
    IN  [n \in 1..Len(idx) |-> Returned(candidates[idx[n]])]

TickerRank(t) == CHOOSE k \in 1..Len(Tickers) : Tickers[k] = t

\* the order of sort_values(["ticker", "episode_start_date"])
EpisodeBefore(a, b) ==
    \/ TickerRank(a.ticker) < TickerRank(b.ticker)
    \/ a.ticker = b.ticker /\ a.episode_start_date < b.episode_start_date

\* out.sort_values(..., kind="mergesort"), a stable sort: row i goes after the
\* rows that come before it and after the earlier rows it ties with
SortEpisodes(s) ==
    LET rank(i) == 1 + Cardinality({j \in 1..Len(s) :
                        \/ EpisodeBefore(s[j], s[i])
                        \/ ~EpisodeBefore(s[i], s[j]) /\ j < i})
    IN  [n \in 1..Len(s) |-> s[CHOOSE i \in 1..Len(s) : rank(i) = n]]

\* no episode search in progress
FtIdle ==
    /\ stock_data = [t \in {"A", "B"} |-> <<>>]
    /\ in_x_days = 1
    /\ up_x_pct = 0
    /\ direction = "U"
    /\ candidates = <<>>
    /\ ci = 0
    /\ next_allowed = 0
    /\ keep = {}
    /\ out = <<>>

\* no selection in progress
SelIdle ==
    /\ options_data = <<>>
    /\ opt_cols = {}
    /\ requests = <<>>
    /\ req_cols = {}
    /\ kwargs = [option_type |-> "C"]
    /\ sel_out = <<>>
    /\ sel_error = "none"

\* no strategy builder in progress
BldIdle ==
    /\ trade_filter = <<>>
    /\ strategy = "none"
    /\ params = <<>>
    /\ pos_out = [error |-> "none", table |-> <<>>]
    /\ pos_first = [error |-> "not called", table |-> <<>>]

\* no PnL or risk computation in progress
PnlIdle ==
    /\ option_chains = <<>>
    /\ pnl_kwargs = <<>>
    /\ pnl_out = <<>>
    /\ leg_snap = <<>>
    /\ trade_cost = <<>>
    /\ risk_out = <<>>

\* no get_option_chains call in progress
GocIdle ==
    /\ keys = {}
    /\ data = {}
    /\ chains_out = {}

FtInit ==
    /\ stock_data \in PriceTables
    /\ in_x_days \in 1..MaxHorizon
    /\ up_x_pct \in Thresholds
    /\ direction \in Directions
    /\ pc = "start"
    /\ candidates = <<>>
    /\ ci = 0
    /\ next_allowed = 0
    /\ keep = {}
    /\ out = <<>>
    /\ SelIdle
    /\ BldIdle
    /\ PnlIdle
    /\ GocIdle

\* lines 42-106: the vectorised search for candidate episodes
FindCandidates ==
    /\ pc = "start"
    /\ candidates' = Candidates
    /\ ci' = 1
    /\ next_allowed' = 0
    /\ keep' = {}
    /\ pc' = "greedy"
    /\ UNCHANGED <<selVars, bldVars, pnlVars, gocVars>>
    /\ UNCHANGED <<stock_data, in_x_days, up_x_pct, direction, out>>

\* lines 116-119, sp[i] >= next_allowed
GreedyKeep ==
    /\ pc = "greedy"
    /\ ci <= Len(candidates)
    /\ candidates[ci].start_pos >= GroupNextAllowed(ci)
    /\ keep' = keep \cup {ci}
    /\ next_allowed' = Advance(candidates[ci].end_pos)
    /\ ci' = ci + 1
    /\ UNCHANGED <<selVars, bldVars, pnlVars, gocVars>>
    /\ UNCHANGED <<stock_data, in_x_days, up_x_pct, direction, pc, candidates, out>>

\* lines 116-117, sp[i] < next_allowed
GreedySkip ==
    /\ pc = "greedy"
    /\ ci <= Len(candidates)
    /\ candidates[ci].start_pos < GroupNextAllowed(ci)
    /\ next_allowed' = GroupNextAllowed(ci)
    /\ ci' = ci + 1
    /\ UNCHANGED <<selVars, bldVars, pnlVars, gocVars>>
    /\ UNCHANGED <<stock_data, in_x_days, up_x_pct, direction, pc, candidates, keep, out>>

\* lines 121-128: concat the picked rows and sort them
ReturnTrades ==
    /\ pc = "greedy"
    /\ ci > Len(candidates)
    /\ out' = SortEpisodes(Picked)
    /\ pc' = "done"
    /\ UNCHANGED <<selVars, bldVars, pnlVars, gocVars>>
    /\ UNCHANGED <<stock_data, in_x_days, up_x_pct, direction, candidates, ci,
                   next_allowed, keep>>

FtNext == FindCandidates \/ GreedyKeep \/ GreedySkip \/ ReturnTrades

Spec == FtInit /\ [][FtNext]_vars

\* ------------------------------------------- find_trades, a longer horizon

\* one ticker, in_x_days up to one more than MaxHorizon
HorizonInit ==
    /\ \E a \in UNION {SeqsOfLen(PriceValues, la) : la \in 0..MaxRows} :
          stock_data = [t \in {"A", "B"} |-> IF t = "A" THEN a ELSE <<>>]
    /\ in_x_days \in 1..(MaxHorizon + 1)
    /\ up_x_pct \in Thresholds
    /\ direction \in Directions
    /\ pc = "start"
    /\ candidates = <<>>
    /\ ci = 0
    /\ next_allowed = 0
    /\ keep = {}
    /\ out = <<>>
    /\ SelIdle
    /\ BldIdle
    /\ PnlIdle
    /\ GocIdle

SpecHorizon == HorizonInit /\ [][FtNext]_vars

\* ========================================= select_option_contracts_batch

\* a parameter left at its default None
None == 0 - 2000

\* the optional columns an option chain may carry
OptionalCols == {"strike", "bid", "ask", "volume", "open_interest"}

\* The chain opt maps a contract id to its quote row, the requests req map a
\* trade_filter_id to its request row; a candidate of
\* cand = opt.merge(req, on=["ticker", "date"]) is the pair <<t, i>> of a
\* trade_filter_id and a contract id.

\* lines 174-186: rows of the wanted option_type joined to the requests on
\* (ticker, date)
Joined(opt, req, call) ==
    {c \in (DOMAIN req) \X (DOMAIN opt) :
        /\ opt[c[2]].option_type = call.option_type
        /\ opt[c[2]].ticker = req[c[1]].ticker
        /\ opt[c[2]].date = req[c[1]].date}

\* lines 189-207: days_till_expiration present and >= 0, then the optional
\* liquidity and quote filters, each applied only when its column is there
SanityOk(o, cols, call) ==
    /\ IsNum(o.days_till_expiration) /\ o.days_till_expiration >= 0
    /\ (call.min_open_interest # None /\ "open_interest" \in cols)
          => Ge(o.open_interest, call.min_open_interest)
    /\ (call.min_volume # None /\ "volume" \in cols)
          => Ge(o.volume, call.min_volume)
    /\ (call.require_quotes /\ "bid" \in cols /\ "ask" \in cols)
          => /\ Ge(o.bid, 0) /\ Ge(o.ask, 0) /\ Ge(o.ask, o.bid)

\* a candidate goes when its id is excluded for any trade_filter_id
NotExcludedAnywhere(c, ex) ==
    \A t \in DOMAIN ex : ~IsNum(ex[t]) \/ c[2] # ex[t]

\* lines 213-222: exclude_ids is a Series trade_filter_id -> id; a candidate
\* goes when its id is the one mapped to its own trade_filter_id
NotExcluded(c, ex) ==
    c[1] \in DOMAIN ex => (~IsNum(ex[c[1]]) \/ c[2] # ex[c[1]])

\* lines 174-225: the candidates left before the nearest-DTE filter
Filtered(opt, cols, req, call) ==
    {c \in Joined(opt, req, call) :
        SanityOk(opt[c[2]], cols, call) /\ NotExcluded(c, call.exclude_ids)}

\* line 228
DteDist(o, r) == Abs(o.days_till_expiration - r.days_till_expiration_target)

\* every candidate stays, whatever its dte_dist
NearestDteOff(cand, opt, req) == cand

\* lines 229-230: only the rows at the per-request minimum of dte_dist stay
NearestDte(cand, opt, req) ==
    {c \in cand :
        \A d \in cand : d[1] = c[1]
            => DteDist(opt[c[2]], req[c[1]]) <= DteDist(opt[d[2]], req[d[1]])}

\* lines 235-250: |pct_from_strike - pct_target| or |price - price_target|;
\* a target given as the fraction target / den is compared after scaling
\* both sides by den
Dist(o, r, call) ==
    LET v == IF call.target_kind = "pct" THEN o.pct_from_strike ELSE o.price
    IN  IF IsNum(v) /\ IsNum(r.target) THEN Abs(call.den * v - r.target) ELSE NaN

\* lines 227-253: the candidates the ranking sees, those of finite dist
Survivors(opt, cols, req, call) ==
    {c \in NearestDte(Filtered(opt, cols, req, call), opt, req) :
        IsNum(Dist(opt[c[2]], req[c[1]], call))}

\* lines 258-261
Spread(o, cols) ==
    IF "bid" \in cols /\ "ask" \in cols /\ IsNum(o.ask) /\ IsNum(o.bid)
    THEN Abs(o.ask - o.bid) ELSE NaN

\* sort_values on one key: NaN goes last whatever the direction
KeyBefore(x, y, asc) ==
    /\ IsNum(x)
    /\ \/ ~IsNum(y)
       \/ IF asc THEN x < y ELSE x > y

\* the sort keys of candidate row o with id i for request r, in sort_cols
\* order: dist, spread, open_interest, volume, id
SortKeys(i, o, r, cols, call) ==
    <<Dist(o, r, call),
      Spread(o, cols),
      IF "open_interest" \in cols THEN o.open_interest ELSE NaN,
      IF "volume" \in cols THEN o.volume ELSE NaN,
      i>>

\* open_interest ascending in place of descending
AscendingOiUp == <<TRUE, TRUE, TRUE, FALSE, TRUE>>

\* lines 263-274: ascending = [True, True, True, False, False, True] after
\* trade_filter_id
Ascending == <<TRUE, TRUE, FALSE, FALSE, TRUE>>

\* line 276: row with keys a sorts before row with keys b
KeysBefore(a, b) ==
    \E k \in 1..5 :
        /\ KeyBefore(a[k], b[k], Ascending[k])
        /\ \A j \in 1..(k - 1) : a[j] = b[j]

\* the first row of the sorted rows of one trade_filter_id (ids are distinct
\* inside a group, so the order is total)
FirstId(grp, opt, r, cols, call) ==
    CHOOSE i \in grp : \A j \in grp \ {i} :
        KeysBefore(SortKeys(i, opt[i], r, cols, call),
                   SortKeys(j, opt[j], r, cols, call))

\* the value the best-ranked row itself carries in one column
FirstRowOnly(grp, opt, r, cols, call, col) ==
    opt[FirstId(grp, opt, r, cols, call)][col]

\* GroupBy.first() on one column of the sorted rows of one trade_filter_id:
\* the first value that is not NaN, looked for column by column
FirstValid(grp, opt, r, cols, call, col) ==
    LET ok == {i \in grp : IsNum(opt[i][col])}
    IN  IF ok = {} THEN NaN ELSE opt[FirstId(ok, opt, r, cols, call)][col]

\* lines 278-285: best = cand.groupby("trade_filter_id").first()[out_cols];
\* the id column is never NaN
BestRow(grp, opt, r, cols, call) ==
    [ticker |-> r.ticker,
     date |-> r.date,
     id |-> FirstId(grp, opt, r, cols, call),
     days_till_expiration |->
         FirstValid(grp, opt, r, cols, call, "days_till_expiration"),
     price |-> FirstValid(grp, opt, r, cols, call, "price"),
     pct_from_strike |-> FirstValid(grp, opt, r, cols, call, "pct_from_strike"),
     strike |-> IF "strike" \in cols
                THEN FirstValid(grp, opt, r, cols, call, "strike") ELSE NaN]

\* select_option_contracts_batch: the returned table, indexed by
\* trade_filter_id, at most one row for each
Select(opt, cols, req, call) ==
    LET cand == Survivors(opt, cols, req, call)
    IN  [t \in {c[1] : c \in cand} |->
            BestRow({c[2] : c \in {d \in cand : d[1] = t}}, opt, req[t], cols, call)]

\* what a call gives back: a table, or the exception it raises
Table(table) == [error |-> "none", table |-> table]

Raises(exception) == [error |-> exception, table |-> <<>>]

\* the price columns of the chain; the rows' field price holds "last"
PriceCols == {"last"}

\* line 135: price_col="last" unless the caller names another column
PriceColOf(call) ==
    IF "price_col" \in DOMAIN call THEN call.price_col ELSE "last"

\* lines 235-250: the column target_kind reads from the requests
TargetColumn(target_kind) ==
    CASE target_kind = "pct" -> "pct_target"
      [] target_kind = "price" -> "price_target"
      [] OTHER -> "none"

\* lines 151-285 in the order of the code: the empty inputs return first,
\* then the price column is looked for, then each filter that leaves no
\* candidate returns the empty table, and only then target_kind and the
\* target column of the requests are looked at.  reqcols are the target
\* columns of the requests; the field target of a request row holds the
\* column target_kind reads.
SelectOrRaise(opt, cols, req, reqcols, call) ==
    IF DOMAIN opt = {} \/ DOMAIN req = {} THEN Table(<<>>)
    ELSE IF PriceColOf(call) \notin PriceCols THEN Raises("KeyError")
    ELSE IF Filtered(opt, cols, req, call) = {} THEN Table(<<>>)
    ELSE IF TargetColumn(call.target_kind) \notin reqcols THEN Raises("ValueError")
    ELSE Table(Select(opt, cols, req, call))

\* ------------------------------------------------ the Selector on its own

ContractIds == {1, 2, 3}
MaxDteTarget == 1       \* days_till_expiration_target ranges over 0..MaxDteTarget

\* a liquid call on ticker A, date 1, at the money
PlainQuote(dte) ==
    [ticker |-> "A", date |-> 1, option_type |-> "C",
     days_till_expiration |-> dte, price |-> 1, pct_from_strike |-> 0,
     strike |-> 1, bid |-> 1, ask |-> 2, volume |-> 1, open_interest |-> 1]

\* the rows the chain is drawn from: a plain quote, or one that differs from
\* it in one field
QuoteKinds == {"plain", "put", "other_date", "neg_dte", "nan_dte", "low_oi",
               "no_vol", "crossed", "nan_pct"}

QuoteOfKind(dte, kind) ==
    LET q == PlainQuote(dte)
    IN  CASE kind = "plain" -> q
          [] kind = "put" -> [q EXCEPT !.option_type = "P"]
          [] kind = "other_date" -> [q EXCEPT !.date = 2]
          [] kind = "neg_dte" -> [q EXCEPT !.days_till_expiration = 0 - 1]
          [] kind = "nan_dte" -> [q EXCEPT !.days_till_expiration = NaN]
          [] kind = "low_oi" -> [q EXCEPT !.open_interest = 0]
          [] kind = "no_vol" -> [q EXCEPT !.volume = NaN]
          [] kind = "crossed" -> [q EXCEPT !.bid = 2, !.ask = 1]
          [] kind = "nan_pct" -> [q EXCEPT !.pct_from_strike = NaN]

SelQuotes == {QuoteOfKind(d, k) : d \in {0, 1, 2}, k \in QuoteKinds}

\* two requests on different dates of ticker A
SelRequests(dteTarget) ==
    [t \in {0, 1} |->
        [ticker |-> "A", date |-> t + 1, target |-> 0,
         days_till_expiration_target |-> dteTarget]]

\* exclude_ids: trade_filter_id -> excluded id
SelExcludes == {<<>>, [t \in {0} |-> 1]}

\* (columns, min_open_interest, min_volume, require_quotes)
SelFilters ==
    {<<OptionalCols, None, None, FALSE>>,
     <<OptionalCols, 1, None, FALSE>>,
     <<OptionalCols, None, 1, FALSE>>,
     <<OptionalCols, None, None, TRUE>>,
     <<{"strike"}, 1, 1, TRUE>>}

\* the keyword arguments of one call
Kwargs(type, kind, den, ex, minOi, minVol, quotes) ==
    [option_type |-> type, target_kind |-> kind, den |-> den,
     exclude_ids |-> ex, min_open_interest |-> minOi,
     min_volume |-> minVol, require_quotes |-> quotes]

SelInit ==
    /\ pc = "start"
    /\ FtIdle
    /\ PnlIdle
    /\ GocIdle
    /\ BldIdle
    /\ options_data \in [ContractIds -> SelQuotes]
    /\ \E d \in 0..MaxDteTarget : requests = SelRequests(d)
    /\ \E f \in SelFilters, ex \in SelExcludes :
          /\ opt_cols = f[1]
          /\ kwargs = Kwargs("C", "pct", 1, ex, f[2], f[3], f[4])
    /\ req_cols = {"pct_target"}
    /\ sel_out = <<>>
    /\ sel_error = "none"

\* one call of select_option_contracts_batch
SelectBatch ==
    /\ pc = "start"
    /\ \E result \in {SelectOrRaise(options_data, opt_cols, requests, req_cols,
                                     kwargs)} :
          /\ sel_out' = result.table
          /\ sel_error' = result.error
    /\ pc' = "done"
    /\ UNCHANGED <<ftVars, bldVars, pnlVars, gocVars, options_data, opt_cols, requests, req_cols,
                   kwargs>>

SelNext == SelectBatch

SpecSelect == SelInit /\ [][SelNext]_vars

\* ------------------------------------------- the Selector with exclusions

\* calls of ticker A, date 1, that differ in expiry and moneyness
ExQuotes ==
    {[PlainQuote(d) EXCEPT !.pct_from_strike = p] : d \in {0, 1}, p \in {NaN, 0, 1}}

\* two requests on the same (ticker, date)
ExRequests(dteTarget, pctTarget) ==
    [t \in {0, 1} |->
        [ticker |-> "A", date |-> 1, target |-> pctTarget,
         days_till_expiration_target |-> dteTarget]]

\* every exclude_ids Series over the two requests: an entry may be missing,
\* NaN or a contract id
ExcludeSeries ==
    UNION {[T -> ContractIds \cup {NaN}] : T \in SUBSET {0, 1}}

ExInit ==
    /\ pc = "start"
    /\ FtIdle
    /\ PnlIdle
    /\ GocIdle
    /\ BldIdle
    /\ options_data \in [ContractIds -> ExQuotes]
    /\ \E d \in 0..MaxDteTarget, p \in {0, 1} : requests = ExRequests(d, p)
    /\ opt_cols = OptionalCols
    /\ \E ex \in ExcludeSeries :
          kwargs = Kwargs("C", "pct", 1, ex, None, None, FALSE)
    /\ req_cols = {"pct_target"}
    /\ sel_out = <<>>
    /\ sel_error = "none"

SpecExclude == ExInit /\ [][SelNext]_vars

\* --------------------------------- the Selector and its configuration

\* calls and puts of ticker A, date 1, some without a usable expiry or
\* moneyness
CfgQuotes == {QuoteOfKind(0, k) : k \in {"plain", "put", "nan_dte", "nan_pct"}}

\* the chains of at most two contracts, the empty chain included
CfgChains == UNION {[I -> CfgQuotes] : I \in SUBSET {1, 2}}

\* no request, one request, or two requests on the same (ticker, date)
CfgRequests ==
    {[t \in T |-> ExRequests(0, 0)[t]] : T \in {{}, {0}, {0, 1}}}

\* target_kind as the caller wrote it, price_col left at its default or
\* naming a column the chain has ("last") or has not ("mark")
CfgKwargs ==
    {Kwargs("C", kind, 1, ex, None, None, FALSE) : kind \in {"pct", "price", "delta"},
                                                    ex \in SelExcludes}
    \cup {[price_col |-> col] @@ Kwargs("C", kind, 1, <<>>, None, None, FALSE) :
              kind \in {"pct", "price", "delta"}, col \in {"last", "mark"}}

CfgInit ==
    /\ pc = "start"
    /\ FtIdle
    /\ PnlIdle
    /\ GocIdle
    /\ BldIdle
    /\ options_data \in CfgChains
    /\ opt_cols = OptionalCols
    /\ requests \in CfgRequests
    /\ req_cols \in SUBSET {"pct_target", "price_target"}
    /\ kwargs \in CfgKwargs
    /\ sel_out = <<>>
    /\ sel_error = "none"

SpecConfig == CfgInit /\ [][SelNext]_vars

\* ------------------------------------------- the Selector breaking ties

\* calls of ticker A, date 1, expiring the same day, that differ in
\* moneyness, quotes, open interest and volume; a column the chain does not
\* carry holds nothing
TieQuotes(cols) ==
    {[PlainQuote(0) EXCEPT !.pct_from_strike = p, !.bid = ba[1], !.ask = ba[2],
                           !.open_interest = oi, !.volume = vo] :
        p \in {0, 1},
        ba \in IF {"bid", "ask"} \subseteq cols
               THEN {<<1, 1>>, <<1, 2>>, <<NaN, 1>>}
               ELSE IF "bid" \in cols THEN {<<1, NaN>>, <<2, NaN>>}
               ELSE {<<NaN, NaN>>},
        oi \in IF "open_interest" \in cols THEN {NaN, 0, 1} ELSE {NaN},
        vo \in IF "volume" \in cols THEN {0, 1} ELSE {NaN}}

TieCols ==
    {OptionalCols, {"strike", "bid", "volume", "open_interest"},
     {"strike", "bid", "ask", "volume"}, {"strike", "bid", "ask", "open_interest"},
     {"strike"}}

TieInit ==
    /\ pc = "start"
    /\ FtIdle
    /\ PnlIdle
    /\ GocIdle
    /\ BldIdle
    /\ opt_cols \in TieCols
    /\ options_data \in [ContractIds -> TieQuotes(opt_cols)]
    /\ requests = [t \in {0} |-> ExRequests(0, 0)[t]]
    /\ kwargs = Kwargs("C", "pct", 1, <<>>, None, None, FALSE)
    /\ req_cols = {"pct_target"}
    /\ sel_out = <<>>
    /\ sel_error = "none"

SpecTie == TieInit /\ [][SelNext]_vars

\* ================================================== the strategy builders
\* (dynamic_helper_strats_pack.py)  A selection is the table Select returns,
\* a function trade_filter_id -> row.  A builder returns the Position table
\* as the sequence of its rows in index order, or raises.

\* _empty_positions
EmptyPositions == Table(<<>>)

\* _base_req: one request per episode, trade_filter_id = 0, 1, ...
BaseReq(tf) ==
    [t \in 0..(Len(tf) - 1) |->
        [ticker |-> tf[t + 1].ticker, date |-> tf[t + 1].episode_end_date]]

\* the request table with its target columns
WithTargets(req, target, dte) ==
    [t \in DOMAIN req |->
        [ticker |-> req[t].ticker, date |-> req[t].date, target |-> target[t],
         days_till_expiration_target |-> dte]]

\* _select_pct: one pct_target for every request
SelectPct(opt, cols, req, option_type, pct_target, dte, exclude_ids) ==
    Select(opt, cols, WithTargets(req, [t \in DOMAIN req |-> pct_target], dte),
           Kwargs(option_type, "pct", 1, exclude_ids, None, None, FALSE))

\* the long-leg call of the backspreads and the split strangle: the price
\* target of request t is short_px[t] / 2.0
SelectHalfPrice(opt, cols, req, option_type, short_px, dte, exclude_ids) ==
    Select(opt, cols, WithTargets(req, short_px, dte),
           Kwargs(option_type, "price", 2, exclude_ids, None, None, FALSE))

\* sel["id"] and sel[price_col]
IdsOf(sel) == [t \in DOMAIN sel |-> sel[t].id]

PricesOf(sel) == [t \in DOMAIN sel |-> sel[t].price]

\* short_sel.reset_index()[["trade_filter_id", "ticker", "date", ...]]
ReqOf(sel) == [t \in DOMAIN sel |-> [ticker |-> sel[t].ticker, date |-> sel[t].date]]

\* _valid_intersection
ValidIntersection(sels) ==
    {t \in DOMAIN sels[1] : \A k \in 2..Len(sels) : t \in DOMAIN sels[k]}

\* sel.loc[valid] and, with the complement, sel.drop(bad_tids)
Restrict(sel, tids) == [t \in tids |-> sel[t]]

\* the trades bad_tids go from the first selection only
DropTidsFirstOnly(sels, bad_tids) ==
    [k \in 1..Len(sels) |->
        IF k = 1 THEN Restrict(sels[k], (DOMAIN sels[k]) \ bad_tids) ELSE sels[k]]

\* _drop_tids: the trades bad_tids go from every selection of the list
DropTids(sels, bad_tids) ==
    [k \in 1..Len(sels) |-> Restrict(sels[k], (DOMAIN sels[k]) \ bad_tids)]

\* _check_price_lt: the trades where a is not cheaper than b; a comparison
\* with NaN is False and fillna(False) keeps it so
CheckPriceLt(a, b) == {t \in DOMAIN a : Ge(a[t].price, b[t].price)}

\* _check_price_gt: the trades where a is not more expensive than b
CheckPriceGt(a, b) == {t \in DOMAIN a : Le(a[t].price, b[t].price)}

\* _check_strike_order: nothing is checked without the strike column;
\* bad = ~(lK op hK), so a NaN strike is bad
CheckStrikeOrder(low, high, op, cols) ==
    IF "strike" \notin cols THEN {}
    ELSE {t \in DOMAIN low :
            ~ CASE op = "lt" -> Lt(low[t].strike, high[t].strike)
                [] op = "gt" -> Gt(low[t].strike, high[t].strike)
                [] op = "eq" -> /\ IsNum(low[t].strike) /\ IsNum(high[t].strike)
                                /\ low[t].strike = high[t].strike}

\* _pos_from_sel for the row of trade t
PosRow(sel, t, qty, dir) ==
    [id |-> sel[t].id, date |-> sel[t].date, trade_filter_id |-> t,
     ticker |-> sel[t].ticker, quantity |-> qty, direction |-> dir]

\* index order (id, date, trade_filter_id), equal keys in concat order
PosBefore(a, ka, b, kb) ==
    \/ a.id < b.id
    \/ a.id = b.id /\ a.date < b.date
    \/ a.id = b.id /\ a.date = b.date /\ a.trade_filter_id < b.trade_filter_id
    \/ a.id = b.id /\ a.date = b.date /\ a.trade_filter_id = b.trade_filter_id
         /\ ka < kb

\* pd.concat of the legs' _pos_from_sel, set_index, sort_index; leg k is
\* the selection sels[k] with quantity sides[k][1] and direction sides[k][2]
Positions(sels, sides) ==
    LET cells == {c \in (1..Len(sels)) \X (UNION {DOMAIN sels[k] : k \in 1..Len(sels)}) :
                     c[2] \in DOMAIN sels[c[1]]}
        row(c) == PosRow(sels[c[1]], c[2], sides[c[1]][1], sides[c[1]][2])
        rank(c) == 1 + Cardinality({d \in cells : PosBefore(row(d), d[1], row(c), c[1])})
    IN  Table([n \in 1..Cardinality(cells) |->
                  row(CHOOSE c \in cells : rank(c) = n)])

\* Each builder is written in two parts: the Selector calls, one per leg, a
\* later leg excluding the id of an earlier one, and the part that follows
\* them (intersection, sanity checks, assembly), which takes the selections.

\* ---------------------------------------------------- vertical spreads

\* lines 226-250
BullCallDebitSpreadLegs(cols, long_sel, short_sel) ==
    LET valid == ValidIntersection(<<long_sel, short_sel>>)
        long_v == Restrict(long_sel, valid)
        short_v == Restrict(short_sel, valid)
        bad == CheckPriceGt(long_v, short_v)
                 \cup CheckStrikeOrder(short_v, long_v, "gt", cols)
    IN  IF DOMAIN long_sel = {} \/ DOMAIN short_sel = {} \/ valid = {}
        THEN EmptyPositions
        ELSE Positions(DropTids(<<long_v, short_v>>, bad),
                       << <<1, "L">>, <<0 - 1, "S">> >>)

\* lines 198-250
FindBullCallDebitSpreadIds(tf, opt, cols, pct_long_call, pct_short_call, dte) ==
    IF Len(tf) = 0 THEN EmptyPositions
    ELSE BullCallDebitSpreadLegs(cols,
            SelectPct(opt, cols, BaseReq(tf), "C", pct_long_call, dte, <<>>),
            SelectPct(opt, cols, BaseReq(tf), "C", pct_short_call, dte,
                IdsOf(SelectPct(opt, cols, BaseReq(tf), "C", pct_long_call, dte, <<>>))))

\* lines 281-305
BearPutDebitSpreadLegs(cols, long_sel, short_sel) ==
    LET valid == ValidIntersection(<<long_sel, short_sel>>)
        long_v == Restrict(long_sel, valid)
        short_v == Restrict(short_sel, valid)
        bad == CheckPriceGt(long_v, short_v)
                 \cup CheckStrikeOrder(long_v, short_v, "gt", cols)
    IN  IF DOMAIN long_sel = {} \/ DOMAIN short_sel = {} \/ valid = {}
        THEN EmptyPositions
        ELSE Positions(DropTids(<<long_v, short_v>>, bad),
                       << <<1, "L">>, <<0 - 1, "S">> >>)

\* lines 253-305
FindBearPutDebitSpreadIds(tf, opt, cols, pct_long_put, pct_short_put, dte) ==
    IF Len(tf) = 0 THEN EmptyPositions
    ELSE BearPutDebitSpreadLegs(cols,
            SelectPct(opt, cols, BaseReq(tf), "P", pct_long_put, dte, <<>>),
            SelectPct(opt, cols, BaseReq(tf), "P", pct_short_put, dte,
                IdsOf(SelectPct(opt, cols, BaseReq(tf), "P", pct_long_put, dte, <<>>))))

\* lines 336-360
BullPutCreditSpreadLegs(cols, short_sel, long_sel) ==
    LET valid == ValidIntersection(<<short_sel, long_sel>>)
        short_v == Restrict(short_sel, valid)
        long_v == Restrict(long_sel, valid)
        bad == CheckPriceLt(long_v, short_v)
                 \cup CheckStrikeOrder(long_v, short_v, "lt", cols)
    IN  IF DOMAIN short_sel = {} \/ DOMAIN long_sel = {} \/ valid = {}
        THEN EmptyPositions
        ELSE Positions(DropTids(<<short_v, long_v>>, bad),
                       << <<0 - 1, "S">>, <<1, "L">> >>)

\* lines 308-360
FindBullPutCreditSpreadIds(tf, opt, cols, pct_short_put, pct_long_put, dte) ==
    IF Len(tf) = 0 THEN EmptyPositions
    ELSE BullPutCreditSpreadLegs(cols,
            SelectPct(opt, cols, BaseReq(tf), "P", pct_short_put, dte, <<>>),
            SelectPct(opt, cols, BaseReq(tf), "P", pct_long_put, dte,
                IdsOf(SelectPct(opt, cols, BaseReq(tf), "P", pct_short_put, dte, <<>>))))

\* lines 391-415
BearCallCreditSpreadLegs(cols, short_sel, long_sel) ==
    LET valid == ValidIntersection(<<short_sel, long_sel>>)
        short_v == Restrict(short_sel, valid)
        long_v == Restrict(long_sel, valid)
        bad == CheckPriceLt(long_v, short_v)
                 \cup CheckStrikeOrder(long_v, short_v, "gt", cols)
    IN  IF DOMAIN short_sel = {} \/ DOMAIN long_sel = {} \/ valid = {}
        THEN EmptyPositions
        ELSE Positions(DropTids(<<short_v, long_v>>, bad),
                       << <<0 - 1, "S">>, <<1, "L">> >>)

\* lines 363-415
FindBearCallCreditSpreadIds(tf, opt, cols, pct_short_call, pct_long_call, dte) ==
    IF Len(tf) = 0 THEN EmptyPositions
    ELSE BearCallCreditSpreadLegs(cols,
            SelectPct(opt, cols, BaseReq(tf), "C", pct_short_call, dte, <<>>),
            SelectPct(opt, cols, BaseReq(tf), "C", pct_long_call, dte,
                IdsOf(SelectPct(opt, cols, BaseReq(tf), "C", pct_short_call, dte, <<>>))))

\* ------------------------------------------- put vertical plus tail put

\* tail_sel["id"] == other_sel["id"]
SameId(a, b) == {t \in DOMAIN a : a[t].id = b[t].id}

\* no duplicate-id guard
DupTailNotChecked(tail, others) == {}

\* lines 472-474 and 890-893: the duplicate-id guards of the tail leg
DupTail(tail, others) ==
    UNION {SameId(tail, others[k]) : k \in 1..Len(others)}

\* the second leg of a put structure, excluding the first leg's id
SecondPut(opt, cols, req, pct_first, pct_second, dte) ==
    SelectPct(opt, cols, req, "P", pct_second, dte,
              IdsOf(SelectPct(opt, cols, req, "P", pct_first, dte, <<>>)))

\* lines 463-497
BullPutCreditSpreadPlusTailPutLegs(cols, short_sel, long_sel, tail_sel, tail_qty) ==
    LET valid == ValidIntersection(<<short_sel, long_sel, tail_sel>>)
        short_v == Restrict(short_sel, valid)
        long_v == Restrict(long_sel, valid)
        tail_v == Restrict(tail_sel, valid)
        bad == DupTail(tail_v, <<short_v>>)
                 \cup CheckPriceLt(long_v, short_v)
                 \cup CheckPriceLt(tail_v, short_v)
                 \cup CheckStrikeOrder(tail_v, long_v, "lt", cols)
                 \cup CheckStrikeOrder(long_v, short_v, "lt", cols)
    IN  IF DOMAIN short_sel = {} \/ DOMAIN long_sel = {} \/ DOMAIN tail_sel = {}
             \/ valid = {}
        THEN EmptyPositions
        ELSE Positions(DropTids(<<short_v, long_v, tail_v>>, bad),
                       << <<0 - 1, "S">>, <<1, "L">>, <<tail_qty, "L">> >>)

\* lines 422-497: the tail leg excludes the long leg's id only
FindBullPutCreditSpreadPlusTailPutIds(tf, opt, cols, pct_short_put, pct_long_put, pct_tail_put, dte, tail_qty) ==
    IF Len(tf) = 0 THEN EmptyPositions
    ELSE BullPutCreditSpreadPlusTailPutLegs(cols,
            SelectPct(opt, cols, BaseReq(tf), "P", pct_short_put, dte, <<>>),
            SecondPut(opt, cols, BaseReq(tf), pct_short_put, pct_long_put, dte),
            SelectPct(opt, cols, BaseReq(tf), "P", pct_tail_put, dte,
                IdsOf(SecondPut(opt, cols, BaseReq(tf), pct_short_put, pct_long_put, dte))),
            tail_qty)

\* lines 881-917
BearPutDebitSpreadPlusTailPutLegs(cols, long_sel, short_sel, tail_sel, tail_qty) ==
    LET valid == ValidIntersection(<<long_sel, short_sel, tail_sel>>)
        long_v == Restrict(long_sel, valid)
        short_v == Restrict(short_sel, valid)
        tail_v == Restrict(tail_sel, valid)
        bad == DupTail(tail_v, <<long_v, short_v>>)
                 \cup CheckPriceGt(long_v, short_v)
                 \cup CheckPriceLt(tail_v, short_v)
                 \cup CheckStrikeOrder(tail_v, short_v, "lt", cols)
                 \cup CheckStrikeOrder(short_v, long_v, "lt", cols)
    IN  IF DOMAIN long_sel = {} \/ DOMAIN short_sel = {} \/ DOMAIN tail_sel = {}
             \/ valid = {}
        THEN EmptyPositions
        ELSE Positions(DropTids(<<long_v, short_v, tail_v>>, bad),
                       << <<1, "L">>, <<0 - 1, "S">>, <<tail_qty, "L">> >>)

\* lines 840-917: the tail leg excludes the short leg's id only
FindBearPutDebitSpreadPlusTailPutIds(tf, opt, cols, pct_long_put, pct_short_put, pct_tail_put, dte, tail_qty) ==
    IF Len(tf) = 0 THEN EmptyPositions
    ELSE BearPutDebitSpreadPlusTailPutLegs(cols,
            SelectPct(opt, cols, BaseReq(tf), "P", pct_long_put, dte, <<>>),
            SecondPut(opt, cols, BaseReq(tf), pct_long_put, pct_short_put, dte),
            SelectPct(opt, cols, BaseReq(tf), "P", pct_tail_put, dte,
                IdsOf(SecondPut(opt, cols, BaseReq(tf), pct_long_put, pct_short_put, dte))),
            tail_qty)

\* ------------------------------------- straddle, iron condor, jade lizard

\* lines 518-536
LongStraddleLegs(call_sel, put_sel) ==
    LET valid == ValidIntersection(<<call_sel, put_sel>>)
    IN  IF DOMAIN call_sel = {} \/ DOMAIN put_sel = {} \/ valid = {}
        THEN EmptyPositions
        ELSE Positions(<<Restrict(call_sel, valid),
                         Restrict(put_sel, valid)>>,
                       << <<1, "L">>, <<1, "L">> >>)

\* lines 504-536
FindLongStraddleIds(tf, opt, cols, pct_target, dte) ==
    IF Len(tf) = 0 THEN EmptyPositions
    ELSE LongStraddleLegs(
            SelectPct(opt, cols, BaseReq(tf), "C", pct_target, dte, <<>>),
            SelectPct(opt, cols, BaseReq(tf), "P", pct_target, dte, <<>>))

\* lines 581-618
IronCondorLegs(cols, sp0, lp0, sc0, lc0) ==
    LET valid == ValidIntersection(<<sp0, lp0, sc0, lc0>>)
        sp == Restrict(sp0, valid)
        lp == Restrict(lp0, valid)
        sc == Restrict(sc0, valid)
        lc == Restrict(lc0, valid)
        bad == CheckPriceLt(lp, sp) \cup CheckPriceLt(lc, sc)
                 \cup CheckStrikeOrder(lp, sp, "lt", cols)
                 \cup CheckStrikeOrder(lc, sc, "gt", cols)
                 \cup CheckStrikeOrder(sp, sc, "lt", cols)
    IN  IF DOMAIN sp0 = {} \/ DOMAIN lp0 = {} \/ DOMAIN sc0 = {} \/ DOMAIN lc0 = {}
             \/ valid = {}
        THEN EmptyPositions
        ELSE Positions(DropTids(<<sp, lp, sc, lc>>, bad),
                       << <<0 - 1, "S">>, <<1, "L">>, <<0 - 1, "S">>, <<1, "L">> >>)

\* lines 543-618
FindIronCondorIds(tf, opt, cols, pct_short_put, pct_long_put, pct_short_call, pct_long_call, dte) ==
    IF Len(tf) = 0 THEN EmptyPositions
    ELSE IronCondorLegs(cols,
            SelectPct(opt, cols, BaseReq(tf), "P", pct_short_put, dte, <<>>),
            SecondPut(opt, cols, BaseReq(tf), pct_short_put, pct_long_put, dte),
            SelectPct(opt, cols, BaseReq(tf), "C", pct_short_call, dte, <<>>),
            SelectPct(opt, cols, BaseReq(tf), "C", pct_long_call, dte,
                IdsOf(SelectPct(opt, cols, BaseReq(tf), "C", pct_short_call, dte, <<>>))))

\* lines 659-686
JadeLizardLegs(cols, sp0, sc0, lc0) ==
    LET valid == ValidIntersection(<<sp0, sc0, lc0>>)
        sp == Restrict(sp0, valid)
        sc == Restrict(sc0, valid)
        lc == Restrict(lc0, valid)
        bad == CheckPriceLt(lc, sc) \cup CheckStrikeOrder(lc, sc, "gt", cols)
    IN  IF DOMAIN sp0 = {} \/ DOMAIN sc0 = {} \/ DOMAIN lc0 = {} \/ valid = {}
        THEN EmptyPositions
        ELSE Positions(DropTids(<<sp, sc, lc>>, bad),
                       << <<0 - 1, "S">>, <<0 - 1, "S">>, <<1, "L">> >>)

\* lines 625-686
FindJadeLizardIds(tf, opt, cols, pct_short_put, pct_short_call, pct_long_call, dte) ==
    IF Len(tf) = 0 THEN EmptyPositions
    ELSE JadeLizardLegs(cols,
            SelectPct(opt, cols, BaseReq(tf), "P", pct_short_put, dte, <<>>),
            SelectPct(opt, cols, BaseReq(tf), "C", pct_short_call, dte, <<>>),
            SelectPct(opt, cols, BaseReq(tf), "C", pct_long_call, dte,
                IdsOf(SelectPct(opt, cols, BaseReq(tf), "C", pct_short_call, dte, <<>>))))

\* ------------------------------------------ call backspread and calendar

\* lines 732-756
CallBackspreadLegs(cols, short_sel, long_sel) ==
    LET valid == ValidIntersection(<<short_sel, long_sel>>)
        short_v == Restrict(short_sel, valid)
        long_v == Restrict(long_sel, valid)
        bad == CheckPriceLt(long_v, short_v)
                 \cup CheckStrikeOrder(long_v, short_v, "gt", cols)
    IN  IF DOMAIN short_sel = {} \/ DOMAIN long_sel = {} \/ valid = {}
        THEN EmptyPositions
        ELSE Positions(DropTids(<<short_v, long_v>>, bad),
                       << <<0 - 1, "S">>, <<2, "L">> >>)

\* lines 716-756: the long leg targets half the short leg's price
CallBackspreadFromShort(opt, cols, dte, short_sel) ==
    CallBackspreadLegs(cols, short_sel,
        SelectHalfPrice(opt, cols, ReqOf(short_sel), "C", PricesOf(short_sel),
                        dte, IdsOf(short_sel)))

\* lines 693-756
FindCallBackspreadIds(tf, opt, cols, pct_target, dte) ==
    IF Len(tf) = 0 THEN EmptyPositions
    ELSE CallBackspreadFromShort(opt, cols, dte,
            SelectPct(opt, cols, BaseReq(tf), "C", pct_target, dte, <<>>))

\* lines 804-835: the longer leg must have the higher DTE; the strikes are
\* equal
CallCalendarLegs(cols, short_sel, long_sel) ==
    LET valid == ValidIntersection(<<short_sel, long_sel>>)
        bad_dte == {t \in valid : ~Gt(long_sel[t].days_till_expiration,
                                      short_sel[t].days_till_expiration)}
        short_v == Restrict(short_sel, valid \ bad_dte)
        long_v == Restrict(long_sel, valid \ bad_dte)
        bad == CheckStrikeOrder(long_v, short_v, "eq", cols)
    IN  IF DOMAIN short_sel = {} \/ DOMAIN long_sel = {} \/ valid = {}
        THEN EmptyPositions
        ELSE Positions(DropTids(<<short_v, long_v>>, bad),
                       << <<0 - 1, "S">>, <<1, "L">> >>)

\* lines 789-835: the long leg targets the short leg's pct_from_strike at
\* dte_long
CallCalendarFromShort(opt, cols, dte_long, short_sel) ==
    CallCalendarLegs(cols, short_sel,
        Select(opt, cols,
               WithTargets(ReqOf(short_sel),
                           [t \in DOMAIN short_sel |-> short_sel[t].pct_from_strike],
                           dte_long),
               Kwargs("C", "pct", 1, IdsOf(short_sel), None, None, FALSE)))

\* lines 763-835
FindCallCalendarIds(tf, opt, cols, pct_target, dte_short, dte_long) ==
    IF Len(tf) = 0 THEN EmptyPositions
    ELSE CallCalendarFromShort(opt, cols, dte_long,
            SelectPct(opt, cols, BaseReq(tf), "C", pct_target, dte_short, <<>>))

\* ------------------------------------------------ put backspread (1 x 2)

\* lines 1030-1044: strike_width > 0 and the optional width limits;
\* max_strike_width_pct is given in percent, the quotient
\* strike_width / short_strike is NaN for a zero short strike
WidthOk(strike, short_strike, max_strike_width, max_strike_width_pct) ==
    LET width == short_strike - strike
    IN  /\ width > 0
        /\ max_strike_width_pct # None =>
              /\ short_strike # 0
              /\ IF short_strike > 0
                 THEN 100 * width <= max_strike_width_pct * short_strike
                 ELSE 100 * width >= max_strike_width_pct * short_strike
        /\ max_strike_width # None => width <= max_strike_width

\* lines 993-1052: the puts joined to long_req on (ticker, date), other than
\* the short contract, with every needed value present, inside the width
\* limits and cheaper than short_px
WidthCandidates(opt, short_sel, mw, mwp) ==
    {c \in (DOMAIN short_sel) \X (DOMAIN opt) :
        /\ opt[c[2]].option_type = "P"
        /\ opt[c[2]].ticker = short_sel[c[1]].ticker
        /\ opt[c[2]].date = short_sel[c[1]].date
        /\ c[2] # short_sel[c[1]].id
        /\ IsNum(opt[c[2]].strike) /\ IsNum(short_sel[c[1]].strike)
        /\ IsNum(opt[c[2]].price) /\ IsNum(short_sel[c[1]].price)
        /\ IsNum(opt[c[2]].days_till_expiration)
        /\ WidthOk(opt[c[2]].strike, short_sel[c[1]].strike, mw, mwp)
        /\ opt[c[2]].price < short_sel[c[1]].price}

\* lines 1055-1057
WidthNearestDte(all, opt, dte) ==
    {c \in all :
        \A d \in all : d[1] = c[1] =>
            Abs(opt[c[2]].days_till_expiration - dte)
                <= Abs(opt[d[2]].days_till_expiration - dte)}

\* lines 1062-1077: candidate c sorts before d: dist, then strike width,
\* then id
WidthBefore(c, d, opt, short_sel) ==
    LET dc == Abs(2 * opt[c[2]].price - short_sel[c[1]].price)
        dd == Abs(2 * opt[d[2]].price - short_sel[d[1]].price)
        wc == short_sel[c[1]].strike - opt[c[2]].strike
        wd == short_sel[d[1]].strike - opt[d[2]].strike
    IN  \/ dc < dd
        \/ dc = dd /\ wc < wd
        \/ dc = dd /\ wc = wd /\ c[2] < d[2]

WidthFirst(grp, opt, short_sel) ==
    CHOOSE c \in grp : \A d \in grp \ {c} : WidthBefore(c, d, opt, short_sel)

\* lines 1079-1080: groupby.first() takes each column's first present
\* value, and only pct_from_strike can still be missing here
WidthBest(grp, opt, short_sel) ==
    [ticker |-> opt[WidthFirst(grp, opt, short_sel)[2]].ticker,
     date |-> opt[WidthFirst(grp, opt, short_sel)[2]].date,
     id |-> WidthFirst(grp, opt, short_sel)[2],
     days_till_expiration |->
         opt[WidthFirst(grp, opt, short_sel)[2]].days_till_expiration,
     price |-> opt[WidthFirst(grp, opt, short_sel)[2]].price,
     pct_from_strike |->
         IF \A c \in grp : ~IsNum(opt[c[2]].pct_from_strike) THEN NaN
         ELSE opt[WidthFirst({c \in grp : IsNum(opt[c[2]].pct_from_strike)},
                             opt, short_sel)[2]].pct_from_strike,
     strike |-> opt[WidthFirst(grp, opt, short_sel)[2]].strike]

\* lines 992-1083: the width-constrained long put selection
WidthSelectFrom(cand, opt, short_sel) ==
    [t \in {c[1] : c \in cand} |->
        WidthBest({c \in cand : c[1] = t}, opt, short_sel)]

WidthSelect(opt, short_sel, dte, mw, mwp) ==
    WidthSelectFrom(WidthNearestDte(WidthCandidates(opt, short_sel, mw, mwp), opt, dte),
                    opt, short_sel)

\* lines 1115-1127: the final guard on the strike width
WidthGuardBad(short_v, long_v, mw, mwp) ==
    {t \in DOMAIN short_v :
        \/ ~IsNum(short_v[t].strike) \/ ~IsNum(long_v[t].strike)
        \/ ~WidthOk(long_v[t].strike, short_v[t].strike, mw, mwp)}

\* lines 1086-1133: the three checks, each on what the one before left
BackspreadKept(cols, short_sel, long_sel, valid_tids, mw, mwp) ==
    {t \in valid_tids :
        /\ t \notin CheckPriceLt(Restrict(long_sel, valid_tids),
                                 Restrict(short_sel, valid_tids))
        /\ t \notin CheckStrikeOrder(Restrict(long_sel, valid_tids),
                                     Restrict(short_sel, valid_tids), "lt", cols)
        /\ (mw # None \/ mwp # None) =>
              t \notin WidthGuardBad(Restrict(short_sel, valid_tids),
                                     Restrict(long_sel, valid_tids), mw, mwp)}

\* lines 985-1150
BackspreadLegs(cols, short_sel, long_sel, mw, mwp) ==
    LET valid_tids == ValidIntersection(<<short_sel, long_sel>>)
        kept == BackspreadKept(cols, short_sel, long_sel, valid_tids, mw, mwp)
    IN  IF DOMAIN long_sel = {} \/ valid_tids = {}
        THEN EmptyPositions
        ELSE Positions(<<Restrict(short_sel, kept), Restrict(long_sel, kept)>>,
                       << <<0 - 1, "S">>, <<2, "L">> >>)

\* lines 954-1150: without a strike column the strike_map lookup
\* options_data[["id", "strike"]] raises KeyError
BackspreadFromShort(opt, cols, dte, mw, mwp, short_sel) ==
    IF DOMAIN short_sel = {} THEN EmptyPositions
    ELSE IF "strike" \notin cols THEN Raises("KeyError")
    ELSE BackspreadLegs(cols, short_sel,
            IF mw = None /\ mwp = None
            THEN SelectHalfPrice(opt, cols, ReqOf(short_sel), "P",
                                 PricesOf(short_sel), dte, IdsOf(short_sel))
            ELSE WidthSelect(opt, short_sel, dte, mw, mwp),
            mw, mwp)

\* lines 920-1150
FindBackspreadIds(tf, opt, cols, pct_target, dte, max_strike_width, max_strike_width_pct) ==
    IF Len(tf) = 0 THEN EmptyPositions
    ELSE BackspreadFromShort(opt, cols, dte, max_strike_width, max_strike_width_pct,
            SelectPct(opt, cols, BaseReq(tf), "P", pct_target, dte, <<>>))

\* ----------------------------------------------- call split strangle

\* pct_from_strike is counted in 1 / PctUnit
PctUnit == 4

\* line 1274: spot = strike * (1 + pct_from_strike) of the short call is
\* present
SpotKnown(s) == IsNum(s.strike) /\ IsNum(s.pct_from_strike)

\* lines 1213-1214: the rows of one option_type with pct_from_strike < 0
OtmUniverse(opt, option_type) ==
    [i \in {j \in DOMAIN opt : /\ opt[j].option_type = option_type
                               /\ Lt(opt[j].pct_from_strike, 0)} |-> opt[i]]

\* lines 1255-1266: the trades whose long legs cost more than the short
\* premium
SpendBad(short_sel, long_call_sel, long_put_sel, tids) ==
    {t \in tids :
        /\ IsNum(long_call_sel[t].price) /\ IsNum(long_put_sel[t].price)
        /\ IsNum(short_sel[t].price)
        /\ long_call_sel[t].price + long_put_sel[t].price > short_sel[t].price}

\* lines 1276-1279 and 1286-1289: the trades whose long strike is on the
\* wrong side of the spot inferred from the short call
SpotBad(short_sel, long_sel, tids, side) ==
    {t \in tids :
        /\ SpotKnown(short_sel[t]) /\ IsNum(long_sel[t].strike)
        /\ IF side = "above"
           THEN ~(PctUnit * long_sel[t].strike
                    > short_sel[t].strike * (PctUnit + short_sel[t].pct_from_strike))
           ELSE ~(PctUnit * long_sel[t].strike
                    < short_sel[t].strike * (PctUnit + short_sel[t].pct_from_strike))}

\* lines 1268-1315, on the trades kept1 left by the spend check.  After the
\* call check has dropped a trade, lpK and the stale spot are not
\* identically labelled and the comparison lpK < spot raises ValueError.
CallSplitStrangleChecked(cols, short_sel, long_call_sel, long_put_sel, kept1) ==
    LET kept2 == IF "strike" \in cols
                 THEN kept1 \ SpotBad(short_sel, long_put_sel, kept1, "below")
                 ELSE kept1
    IN  IF "strike" \in cols /\ SpotBad(short_sel, long_call_sel, kept1, "above") # {}
        THEN Raises("ValueError")
        ELSE Positions(<<Restrict(short_sel, kept2), Restrict(long_call_sel, kept2),
                         Restrict(long_put_sel, kept2)>>,
                       << <<0 - 1, "S">>, <<1, "L">>, <<1, "L">> >>)

\* lines 1225-1315
CallSplitStrangleLegs(cols, short_sel, long_call_sel, long_put_sel) ==
    LET valid_tids == ValidIntersection(<<short_sel, long_call_sel, long_put_sel>>)
    IN  IF DOMAIN long_call_sel = {} \/ DOMAIN long_put_sel = {} \/ valid_tids = {}
        THEN EmptyPositions
        ELSE CallSplitStrangleChecked(cols, short_sel, long_call_sel, long_put_sel,
                valid_tids \ SpendBad(short_sel, long_call_sel, long_put_sel,
                                      valid_tids))

\* lines 1197-1315: both long legs target half the short call's price in
\* the out-of-the-money universes; only the long call excludes the short id
CallSplitStrangleFromShort(opt, cols, dte, short_sel) ==
    IF DOMAIN short_sel = {} THEN EmptyPositions
    ELSE CallSplitStrangleLegs(cols, short_sel,
            SelectHalfPrice(OtmUniverse(opt, "C"), cols, ReqOf(short_sel), "C",
                            PricesOf(short_sel), dte, IdsOf(short_sel)),
            SelectHalfPrice(OtmUniverse(opt, "P"), cols, ReqOf(short_sel), "P",
                            PricesOf(short_sel), dte, <<>>))

\* lines 1152-1315
FindCallSplitStrangleIds(tf, opt, cols, pct_target, dte) ==
    IF Len(tf) = 0 THEN EmptyPositions
    ELSE CallSplitStrangleFromShort(opt, cols, dte,
            SelectPct(opt, cols, BaseReq(tf), "C", pct_target, dte, <<>>))

\* ------------------------------------------------- the builders' inputs

MaxTailQty == 2     \* tail_qty ranges over 1..MaxTailQty

\* The chains are drawn from a catalogue of contracts of one underlying
\* whose spot is 12: level 1 is at the money, levels 2 and 3 are further
\* out of the money; pct_from_strike is counted in quarters.
LevelPct == <<0, 0 - 1, 0 - 2>>
LevelPrice == <<4, 2, 1>>
CallStrike == <<12, 16, 24>>
PutStrike == <<12, 9, 6>>

\* the contract <<option_type, level, days_till_expiration>> quoted on date
CatalogueQuote(c, date) ==
    [PlainQuote(c[3]) EXCEPT
        !.option_type = c[1], !.date = date,
        !.pct_from_strike = LevelPct[c[2]], !.price = LevelPrice[c[2]],
        !.strike = IF c[1] = "C" THEN CallStrike[c[2]] ELSE PutStrike[c[2]]]

Calls3 == << <<"C", 1, 1>>, <<"C", 2, 1>> , <<"C", 3, 1>> >>
Puts3 == << <<"P", 1, 1>>, <<"P", 2, 1>> , <<"P", 3, 1>> >>

\* the contracts a strategy's chains are made of; the contract id is the
\* position in the catalogue
CatalogueOf(s) ==
    CASE s \in {"bull_call_debit", "bear_call_credit", "call_backspread"} -> Calls3
      [] s \in {"bear_put_debit", "bull_put_credit", "bull_put_tail",
                "bear_put_tail", "backspread"} -> Puts3
      [] s = "straddle" ->
            << <<"C", 1, 1>>, <<"P", 1, 1>>, <<"C", 2, 1>>, <<"P", 2, 1>> >>
      [] s = "iron_condor" -> Puts3 \o << <<"C", 2, 1>>, <<"C", 3, 1>> >>
      [] s = "jade_lizard" -> << <<"P", 1, 1>>, <<"P", 2, 1>> >> \o Calls3
      [] s = "call_calendar" ->
            << <<"C", 1, 1>>, <<"C", 1, 2>>, <<"C", 2, 1>>, <<"C", 2, 2>> >>
      [] s = "split_strangle" -> Calls3 \o << <<"P", 2, 1>>, <<"P", 3, 1>> >>

StrategyNames ==
    {"bull_call_debit", "bear_put_debit", "bull_put_credit", "bear_call_credit",
     "bull_put_tail", "bear_put_tail", "straddle", "iron_condor", "jade_lizard",
     "call_backspread", "call_calendar", "backspread", "split_strangle"}

\* what a chain does with a catalogue contract on date 1: leaves it out,
\* quotes it in full, or quotes it without strike or without price
Qualities(cols) ==
    IF "strike" \in cols THEN {"absent", "ok", "no_strike", "no_price"}
    ELSE {"absent", "ok", "no_price"}

QuoteOfQuality(c, quality, cols) ==
    LET q == CatalogueQuote(c, 1)
    IN  [q EXCEPT !.strike = IF quality = "no_strike" \/ "strike" \notin cols
                             THEN NaN ELSE @,
                  !.price = IF quality = "no_price" THEN NaN ELSE @]

\* the chain: the date-1 quotes of the contracts not left out and, when
\* there is a second episode, the full catalogue quoted on date 2 under
\* further ids
BuildChain(cat, qual, cols, dates) ==
    LET n == Len(cat)
        ids == {i \in 1..n : qual[i] # "absent"}
                 \cup (IF 2 \in dates THEN {n + i : i \in 1..n} ELSE {})
    IN  [i \in ids |->
            IF i <= n THEN QuoteOfQuality(cat[i], qual[i], cols)
            ELSE [CatalogueQuote(cat[i - n], 2) EXCEPT
                     !.strike = IF "strike" \in cols THEN @ ELSE NaN]]

Episode(date) == [ticker |-> "A", episode_end_date |-> date]

\* no episode, one episode, or two episodes given latest first
BuildTradeFilters == {<<>>, <<Episode(1)>>, <<Episode(2), Episode(1)>>}

\* the arguments of one builder call
Args(pct, dte, dte_long, tail_qty, mw, mwp) ==
    [pct |-> pct, dte |-> dte, dte_long |-> dte_long, tail_qty |-> tail_qty,
     max_strike_width |-> mw, max_strike_width_pct |-> mwp]

ParamsOf(s) ==
    CASE s \in {"bull_call_debit", "bear_put_debit", "bull_put_credit",
                "bear_call_credit"} ->
            {Args(p, 1, None, None, None, None) :
                p \in {<<0, 0 - 1>>, <<0 - 1, 0>>, <<0 - 1, 0 - 2>>}}
      [] s \in {"bull_put_tail", "bear_put_tail"} ->
            {Args(p, 1, None, q, None, None) :
                p \in {<<0, 0 - 1, 0 - 2>>, <<0, 0 - 1, 0>>, <<0 - 2, 0 - 1, 0>>},
                q \in 1..MaxTailQty}
      [] s \in {"straddle", "call_backspread", "split_strangle"} ->
            {Args(<<p>>, 1, None, None, None, None) : p \in {0, 0 - 1}}
      [] s = "iron_condor" ->
            {Args(p, 1, None, None, None, None) :
                p \in {<<0 - 1, 0 - 2, 0 - 1, 0 - 2>>, <<0, 0 - 1, 0, 0 - 1>>}}
      [] s = "jade_lizard" ->
            {Args(p, 1, None, None, None, None) :
                p \in {<<0 - 1, 0 - 1, 0 - 2>>, <<0, 0 - 1, 0>>}}
      [] s = "call_calendar" ->
            {Args(<<p>>, d[1], d[2], None, None, None) :
                p \in {0, 0 - 1}, d \in {<<1, 2>>, <<2, 1>>}}
      [] s = "backspread" ->
            {Args(<<p>>, 1, None, None, mw, mwp) :
                p \in {0, 0 - 1}, mw \in {None, 3}, mwp \in {None, 25}}

BuildInit ==
    /\ pc = "start"
    /\ FtIdle
    /\ PnlIdle
    /\ GocIdle
    /\ requests = <<>>
    /\ req_cols = {}
    /\ kwargs = [option_type |-> "C"]
    /\ sel_out = <<>>
    /\ sel_error = "none"
    /\ strategy \in StrategyNames
    /\ params \in ParamsOf(strategy)
    /\ opt_cols \in {OptionalCols, OptionalCols \ {"strike"}}
    /\ trade_filter \in BuildTradeFilters
    /\ \E qual \in [1..Len(CatalogueOf(strategy)) -> Qualities(opt_cols)] :
          options_data = BuildChain(CatalogueOf(strategy), qual, opt_cols,
                                    {trade_filter[k].episode_end_date :
                                        k \in 1..Len(trade_filter)})
    /\ pos_out = [error |-> "none", table |-> <<>>]
    /\ pos_first = [error |-> "not called", table |-> <<>>]

\* what a builder call leaves alone: its arguments and what an earlier call
\* returned
buildInputs == <<trade_filter, strategy, params, pos_first>>

BuildBullCallDebitSpread ==
    /\ pc = "start"
    /\ strategy = "bull_call_debit"
    /\ pos_out' =
        FindBullCallDebitSpreadIds(trade_filter, options_data, opt_cols,
        params.pct[1], params.pct[2], params.dte)
    /\ pc' = "done"
    /\ UNCHANGED <<ftVars, selVars, pnlVars, gocVars, buildInputs>>

BuildBearPutDebitSpread ==
    /\ pc = "start"
    /\ strategy = "bear_put_debit"
    /\ pos_out' =
        FindBearPutDebitSpreadIds(trade_filter, options_data, opt_cols,
        params.pct[1], params.pct[2], params.dte)
    /\ pc' = "done"
    /\ UNCHANGED <<ftVars, selVars, pnlVars, gocVars, buildInputs>>

BuildBullPutCreditSpread ==
    /\ pc = "start"
    /\ strategy = "bull_put_credit"
    /\ pos_out' =
        FindBullPutCreditSpreadIds(trade_filter, options_data, opt_cols,
        params.pct[1], params.pct[2], params.dte)
    /\ pc' = "done"
    /\ UNCHANGED <<ftVars, selVars, pnlVars, gocVars, buildInputs>>

BuildBearCallCreditSpread ==
    /\ pc = "start"
    /\ strategy = "bear_call_credit"
    /\ pos_out' =
        FindBearCallCreditSpreadIds(trade_filter, options_data, opt_cols,
        params.pct[1], params.pct[2], params.dte)
    /\ pc' = "done"
    /\ UNCHANGED <<ftVars, selVars, pnlVars, gocVars, buildInputs>>

BuildBullPutCreditSpreadPlusTailPut ==
    /\ pc = "start"
    /\ strategy = "bull_put_tail"
    /\ pos_out' =
        FindBullPutCreditSpreadPlusTailPutIds(
        trade_filter, options_data, opt_cols, params.pct[1], params.pct[2],
        params.pct[3], params.dte, params.tail_qty)
    /\ pc' = "done"
    /\ UNCHANGED <<ftVars, selVars, pnlVars, gocVars, buildInputs>>

BuildBearPutDebitSpreadPlusTailPut ==
    /\ pc = "start"
    /\ strategy = "bear_put_tail"
    /\ pos_out' =
        FindBearPutDebitSpreadPlusTailPutIds(
        trade_filter, options_data, opt_cols, params.pct[1], params.pct[2],
        params.pct[3], params.dte, params.tail_qty)
    /\ pc' = "done"
    /\ UNCHANGED <<ftVars, selVars, pnlVars, gocVars, buildInputs>>

BuildLongStraddle ==
    /\ pc = "start"
    /\ strategy = "straddle"
    /\ pos_out' =
        FindLongStraddleIds(trade_filter, options_data, opt_cols,
        params.pct[1], params.dte)
    /\ pc' = "done"
    /\ UNCHANGED <<ftVars, selVars, pnlVars, gocVars, buildInputs>>

BuildIronCondor ==
    /\ pc = "start"
    /\ strategy = "iron_condor"
    /\ pos_out' =
        FindIronCondorIds(trade_filter, options_data, opt_cols, params.pct[1],
        params.pct[2], params.pct[3], params.pct[4], params.dte)
    /\ pc' = "done"
    /\ UNCHANGED <<ftVars, selVars, pnlVars, gocVars, buildInputs>>

BuildJadeLizard ==
    /\ pc = "start"
    /\ strategy = "jade_lizard"
    /\ pos_out' =
        FindJadeLizardIds(trade_filter, options_data, opt_cols, params.pct[1],
        params.pct[2], params.pct[3], params.dte)
    /\ pc' = "done"
    /\ UNCHANGED <<ftVars, selVars, pnlVars, gocVars, buildInputs>>

BuildCallBackspread ==
    /\ pc = "start"
    /\ strategy = "call_backspread"
    /\ pos_out' =
        FindCallBackspreadIds(trade_filter, options_data, opt_cols,
        params.pct[1], params.dte)
    /\ pc' = "done"
    /\ UNCHANGED <<ftVars, selVars, pnlVars, gocVars, buildInputs>>

BuildCallCalendar ==
    /\ pc = "start"
    /\ strategy = "call_calendar"
    /\ pos_out' =
        FindCallCalendarIds(trade_filter, options_data, opt_cols,
        params.pct[1], params.dte, params.dte_long)
    /\ pc' = "done"
    /\ UNCHANGED <<ftVars, selVars, pnlVars, gocVars, buildInputs>>

BuildBackspread ==
    /\ pc = "start"
    /\ strategy = "backspread"
    /\ pos_out' =
        FindBackspreadIds(trade_filter, options_data, opt_cols, params.pct[1],
        params.dte, params.max_strike_width,
        params.max_strike_width_pct)
    /\ pc' = "done"
    /\ UNCHANGED <<ftVars, selVars, pnlVars, gocVars, buildInputs>>

BuildCallSplitStrangle ==
    /\ pc = "start"
    /\ strategy = "split_strangle"
    /\ pos_out' =
        FindCallSplitStrangleIds(trade_filter, options_data, opt_cols,
        params.pct[1], params.dte)
    /\ pc' = "done"
    /\ UNCHANGED <<ftVars, selVars, pnlVars, gocVars, buildInputs>>

BuildNext ==
    \/ BuildBullCallDebitSpread
    \/ BuildBearPutDebitSpread
    \/ BuildBullPutCreditSpread
    \/ BuildBearCallCreditSpread
    \/ BuildBullPutCreditSpreadPlusTailPut
    \/ BuildBearPutDebitSpreadPlusTailPut
    \/ BuildLongStraddle
    \/ BuildIronCondor
    \/ BuildJadeLizard
    \/ BuildCallBackspread
    \/ BuildCallCalendar
    \/ BuildBackspread
    \/ BuildCallSplitStrangle

SpecBuild == BuildInit /\ [][BuildNext]_vars

\* --------------------------------------- the tail builders, any tail_qty

\* tail_qty is an int of the caller's choice: negative, zero or positive
TailParams ==
    {Args(p, 1, None, q, None, None) :
        p \in {<<0, 0 - 1, 0 - 2>>, <<0 - 2, 0 - 1, 0>>},
        q \in (0 - MaxTailQty)..MaxTailQty}

TailInit ==
    /\ pc = "start"
    /\ FtIdle
    /\ PnlIdle
    /\ GocIdle
    /\ requests = <<>>
    /\ req_cols = {}
    /\ kwargs = [option_type |-> "C"]
    /\ sel_out = <<>>
    /\ sel_error = "none"
    /\ strategy \in {"bull_put_tail", "bear_put_tail"}
    /\ params \in TailParams
    /\ opt_cols \in {OptionalCols, OptionalCols \ {"strike"}}
    /\ trade_filter \in BuildTradeFilters
    /\ \E qual \in [1..Len(CatalogueOf(strategy)) -> Qualities(opt_cols)] :
          options_data = BuildChain(CatalogueOf(strategy), qual, opt_cols,
                                    {trade_filter[k].episode_end_date :
                                        k \in 1..Len(trade_filter)})
    /\ pos_out = [error |-> "none", table |-> <<>>]
    /\ pos_first = [error |-> "not called", table |-> <<>>]

TailNext == BuildBullPutCreditSpreadPlusTailPut \/ BuildBearPutDebitSpreadPlusTailPut

SpecTail == TailInit /\ [][TailNext]_vars

\* ------------------------------------------- the same builder call again

\* no earlier call
NotCalled == [error |-> "not called", table |-> <<>>]

\* the episodes left in the caller's table in the opposite order
LeftReversed(tf) == [k \in 1..Len(tf) |-> tf[Len(tf) + 1 - k]]

\* lines 28-32: _base_req renames, converts and numbers a copy,
\* trade_filter[[...]].copy(); the caller's trade_filter is as it was
LeftInCaller(tf) == tf

\* the caller keeps the returned table and calls the builder again with the
\* same trade_filter and options_data objects and the same arguments
CallAgain ==
    /\ pc = "done"
    /\ pos_first = NotCalled
    /\ pos_first' = pos_out
    /\ trade_filter' = LeftInCaller(trade_filter)
    /\ pc' = "start"
    /\ UNCHANGED <<ftVars, selVars, pnlVars, gocVars, strategy, params, pos_out>>

TwiceInit == BuildInit /\ Len(trade_filter) = 2

TwiceNext == BuildNext \/ CallAgain

SpecTwice == TwiceInit /\ [][TwiceNext]_vars

\* ========================================================= pnl_transaction

\* float arithmetic: NaN as soon as one side is NaN
Mul(a, b) == IF IsNum(a) /\ IsNum(b) THEN a * b ELSE NaN
Minus(a, b) == IF IsNum(a) /\ IsNum(b) THEN a - b ELSE NaN
Sign(x) == IF x > 0 THEN 1 ELSE IF x < 0 THEN 0 - 1 ELSE 0

RECURSIVE Gcd(_, _)
Gcd(a, b) == IF b = 0 THEN a ELSE Gcd(b, a % b)

\* A float quotient is kept exact as num / den in lowest terms with den > 0;
\* den = 0 stands for nan (num 0), inf (num 1) and -inf (num -1).
NanQ == [num |-> 0, den |-> 0]

\* a / b in float arithmetic: a finite value over zero is inf or -inf, zero
\* over zero and anything with NaN is nan
Quotient(a, b) ==
    IF ~IsNum(a) \/ ~IsNum(b) THEN NanQ
    ELSE IF b = 0 THEN [num |-> Sign(a), den |-> 0]
    ELSE [num |-> Sign(a) * Sign(b) * (Abs(a) \div Gcd(Abs(a), Abs(b))),
          den |-> Abs(b) \div Gcd(Abs(a), Abs(b))]

\* lines 292-294: direction.astype(str).str.upper().str.strip()
UpperStrip(d) ==
    CASE d = "long" -> "LONG"
      [] d = " s " -> "S"
      [] OTHER -> d

\* the sign of a side that takes every recognized direction for a long
SideSignUnsigned(d) ==
    IF UpperStrip(d) \in {"L", "LONG", "BUY", "B", "S", "SHORT", "SELL", "SH"} THEN 1
    ELSE NaN

\* lines 287-301: _side_sign of one value; NaN stands for unrecognized
SideSign(d) ==
    IF UpperStrip(d) \in {"L", "LONG", "BUY", "B"} THEN 1
    ELSE IF UpperStrip(d) \in {"S", "SHORT", "SELL", "SH"} THEN 0 - 1
    ELSE NaN

\* lines 304-320: _entry_price_col
EntryPriceCol(price_col, cols) ==
    IF ("entry_" \o price_col \o "_price") \in cols
    THEN "entry_" \o price_col \o "_price"
    ELSE IF ("entry_" \o price_col) \in cols THEN "entry_" \o price_col
    ELSE "none"

\* lines 359-371: the multiplier of one row: multiplier_col when it is given
\* and there, else contract_multiplier, else option_multiplier, a missing
\* value filled with the default; the default when no such column is there
MultiplierUsed(row, cols, args) ==
    LET col == IF args.multiplier_col \in cols
               THEN args.multiplier_col
               ELSE IF "contract_multiplier" \in cols THEN "contract_multiplier"
               ELSE IF "option_multiplier" \in cols THEN "option_multiplier"
               ELSE "none"
    IN  IF col = "none" THEN args.multiplier
        ELSE IF IsNum(row[col]) THEN row[col] ELSE args.multiplier

\* lines 386-391: a negative quantity whose sign is not the side's, looked
\* for only when some quantity of the table is negative
QtyDirectionMismatch(row, rows) ==
    /\ \E n \in 1..Len(rows) : rows[n].quantity < 0
    /\ Sign(row.quantity) # 0
    /\ Sign(row.quantity) # SideSign(row.direction)

\* lines 378-402: the columns one row gets
PnlRow(row, rows, cols, args) ==
    LET side == SideSign(row.direction)
        entry_px == row[EntryPriceCol(args.price_col, cols)]
        px == row[args.price_col]
        qty_abs == Abs(row.quantity)
        mult == MultiplierUsed(row, cols, args)
        leg_cost == Mul(Mul(Mul(side, entry_px), qty_abs), mult)
        leg_value == Mul(Mul(Mul(side, px), qty_abs), mult)
        notional == IF IsNum(entry_px) THEN Mul(Mul(Abs(entry_px), qty_abs), mult)
                    ELSE NaN
    IN  [trade_filter_id |-> row.trade_filter_id,
         id |-> row.id,
         date |-> row.date,
         entry_price |-> entry_px,
         price |-> px,
         side_sign |-> side,
         quantity_abs |-> qty_abs,
         multiplier_used |-> mult,
         qty_direction_mismatch |-> QtyDirectionMismatch(row, rows),
         leg_cost |-> leg_cost,
         leg_value |-> leg_value,
         pnl |-> Minus(leg_value, leg_cost),
         entry_notional_abs |-> notional,
         pnl_pct |-> Quotient(Minus(leg_value, leg_cost),
                              IF notional = 0 THEN NaN ELSE notional)]

\* lines 324-402: pnl_transaction.  A table is its column names and the
\* sequence of its rows.
PnlTransaction(chains, args) ==
    IF args.price_col \notin chains.cols THEN Raises("KeyError")
    ELSE IF EntryPriceCol(args.price_col, chains.cols) = "none" THEN Raises("KeyError")
    ELSE IF "quantity" \notin chains.cols \/ "direction" \notin chains.cols
         THEN Raises("KeyError")
    ELSE IF \E n \in 1..Len(chains.rows) : ~IsNum(SideSign(chains.rows[n].direction))
         THEN Raises("ValueError")
    ELSE IF args.require_prices
            /\ \E n \in 1..Len(chains.rows) :
                  \/ ~IsNum(chains.rows[n][args.price_col])
                  \/ ~IsNum(chains.rows[n][EntryPriceCol(args.price_col, chains.cols)])
         THEN Raises("ValueError")
    ELSE Table([n \in 1..Len(chains.rows) |->
                    PnlRow(chains.rows[n], chains.rows, chains.cols, args)])

\* ------------------------------------------------ pnl_transaction's inputs

\* The legs' columns every table here has; a multiplier column may be added.
LegCols == {"trade_filter_id", "id", "date", "mark", "entry_mark_price", "entry_mark", "quantity", "direction"}

\* one row of option_chains
Leg(tid, id, date, dir, qty, entry, mark, cm, lm) ==
    [trade_filter_id |-> tid, id |-> id, date |-> date, direction |-> dir,
     quantity |-> qty, entry_mark_price |-> entry, entry_mark |-> 1,
     mark |-> mark, contract_multiplier |-> cm, leg_multiplier |-> lm]

\* Long, quantity 1, entry price 2.00, current price 3.00
ExampleLeg == Leg(1, 1, 1, "L", 1, 2, 3, NaN, NaN)

PnlDirections == {"L", " s ", "long", "X"}

PnlLegs ==
    {Leg(1, 2, 1, dir, qty, entry, mark, cm, lm) :
        dir \in PnlDirections, qty \in {0 - 1, 0, 1, 2}, entry \in {0, 2, NaN},
        mark \in {1, 3, NaN}, cm \in {NaN, 10}, lm \in {NaN, 1}}

PnlCols ==
    {LegCols \cup extra : extra \in SUBSET {"contract_multiplier", "leg_multiplier"}}
    \cup {LegCols \ {"quantity"}, LegCols \ {"entry_mark_price"},
          LegCols \ {"entry_mark_price", "entry_mark"}}

\* multiplier_col None is written "none"
PnlArgs ==
    {[price_col |-> pcol, multiplier |-> 100, multiplier_col |-> mcol, require_prices |-> req] :
        pcol \in {"mark", "mid"}, mcol \in {"none", "leg_multiplier"}, req \in BOOLEAN}

PnlInit ==
    /\ pc = "start"
    /\ FtIdle
    /\ SelIdle
    /\ BldIdle
    /\ \E cols \in PnlCols, leg \in PnlLegs :
          \E rows \in {<<leg>>, <<ExampleLeg, leg>>} :
              option_chains = [cols |-> cols, index |-> {"trade_filter_id", "id", "date"}, rows |-> rows]
    /\ pnl_kwargs \in PnlArgs
    /\ pnl_out = <<>>
    /\ leg_snap = <<>>
    /\ trade_cost = <<>>
    /\ risk_out = <<>>
    /\ GocIdle

\* one call of pnl_transaction
PnlTransactionCall ==
    /\ pc = "start"
    /\ pnl_out' = PnlTransaction(option_chains, pnl_kwargs)
    /\ pc' = "done"
    /\ UNCHANGED <<ftVars, selVars, bldVars, gocVars, option_chains, pnl_kwargs, leg_snap, trade_cost, risk_out>>

PnlNext == PnlTransactionCall

SpecPnl == PnlInit /\ [][PnlNext]_vars

\* ================================================ truncate_trades_on_stops

\* groupby(...).sum() of the values f takes on S: a missing value is skipped
\* and nothing to add gives 0
RECURSIVE SumSkipNa(_, _)
SumSkipNa(f, S) ==
    IF S = {} THEN 0
    ELSE LET x == CHOOSE y \in S : TRUE
         IN  (IF IsNum(f[x]) THEN f[x] ELSE 0) + SumSkipNa(f, S \ {x})

Earliest(S) == CHOOSE x \in S : \A y \in S : x <= y

\* the row numbers of a trade, of one of its legs, of one of its dates
RowsOfTrade(rows, tid) == {n \in 1..Len(rows) : rows[n].trade_filter_id = tid}
RowsOfLeg(rows, tid, id) == {n \in RowsOfTrade(rows, tid) : rows[n].id = id}
RowsOnDate(rows, tid, date) == {n \in RowsOfTrade(rows, tid) : rows[n].date = date}

\* lines 429-433: groupby([trade_filter_id, id]).first() of a column: the
\* leg's first value in row order that is not missing
SnapshotFirst(rows, tid, id, column) ==
    LET filled == {n \in RowsOfLeg(rows, tid, id) : IsNum(rows[n][column])}
    IN  IF filled = {} THEN NaN ELSE rows[Earliest(filled)][column]

\* lines 721-726: the trade's entry notional: the sum over its legs of the
\* snapshot's entry_notional_abs, a zero sum replaced by NaN
TradeEntryNotional(leg, tid) ==
    LET ids == {leg[n].id : n \in RowsOfTrade(leg, tid)}
        total == SumSkipNa([id \in ids |-> SnapshotFirst(leg, tid, id, "entry_notional_abs")], ids)
    IN  IF total = 0 THEN NaN ELSE total

\* lines 729-736: trade_pnl_pct of a trade on a date
TradePnlPct(leg, tid, date) ==
    Quotient(SumSkipNa([n \in RowsOnDate(leg, tid, date) |-> leg[n].pnl], RowsOnDate(leg, tid, date)),
             TradeEntryNotional(leg, tid))

\* A threshold is a quotient; None is written as the quotient with den = 0.
NoThreshold == NanQ
Given(threshold) == threshold.den # 0
AbsQ(q) == [num |-> Abs(q.num), den |-> q.den]
NegQ(q) == [num |-> 0 - q.num, den |-> q.den]
\* a <= b of two floats, false when one of them is NaN
LeQ(a, b) == a.den # 0 /\ b.den # 0 /\ a.num * b.den <= b.num * a.den

\* lines 746-749: the dates on which the stop-loss is hit
StopDates(leg, tid, args) ==
    {d \in {leg[n].date : n \in RowsOfTrade(leg, tid)} :
        Given(args.stop_loss) /\ LeQ(TradePnlPct(leg, tid, d), NegQ(AbsQ(args.stop_loss)))}

\* lines 751-754: the dates on which the take-profit is hit
TakeDates(leg, tid, args) ==
    {d \in {leg[n].date : n \in RowsOfTrade(leg, tid)} :
        Given(args.take_profit) /\ LeQ(AbsQ(args.take_profit), TradePnlPct(leg, tid, d))}

\* a trade's cutoff taken on its dates in row order, not in date order
CutoffUnsorted(leg, tid, args) ==
    LET first(S) == leg[Earliest({n \in RowsOfTrade(leg, tid) : leg[n].date \in S})].date
        hit_dates == (IF StopDates(leg, tid, args) = {} THEN {} ELSE {first(StopDates(leg, tid, args))})
                     \cup (IF TakeDates(leg, tid, args) = {} THEN {} ELSE {first(TakeDates(leg, tid, args))})
    IN  IF hit_dates = {} THEN NaN ELSE Earliest(hit_dates)

\* lines 740-757: the trade's cutoff: g.sort_values("date"), the first date
\* of each kind of hit, the smaller of the two; NaN when nothing is hit
Cutoff(leg, tid, args) ==
    LET hit_dates == (IF StopDates(leg, tid, args) = {} THEN {} ELSE {Earliest(StopDates(leg, tid, args))})
                     \cup (IF TakeDates(leg, tid, args) = {} THEN {} ELSE {Earliest(TakeDates(leg, tid, args))})
    IN  IF hit_dates = {} THEN NaN ELSE Earliest(hit_dates)

\* lines 768-773: keep = cutoff_for_row.isna() | (dates <= cutoff_for_row)
RECURSIVE KeepRows(_, _)
KeepRows(rows, cutoffs) ==
    IF rows = <<>> THEN <<>>
    ELSE (IF ~IsNum(cutoffs[Head(rows).trade_filter_id])
             \/ Head(rows).date <= cutoffs[Head(rows).trade_filter_id]
          THEN <<Head(rows)>> ELSE <<>>) \o KeepRows(Tail(rows), cutoffs)

\* lines 710-773, after pnl_transaction returned the legs
TruncateLegs(chains, args, leg) ==
    LET tids == {leg[n].trade_filter_id : n \in 1..Len(leg)}
        cutoffs == [tid \in tids |-> Cutoff(leg, tid, args)]
    IN  IF ~({"trade_filter_id", "date"} \subseteq chains.index) THEN Raises("ValueError")
        ELSE IF \A tid \in tids : ~IsNum(cutoffs[tid]) THEN Table(chains)
        ELSE Table([chains EXCEPT !.rows = KeepRows(chains.rows, cutoffs)])

\* lines 680-773: truncate_trades_on_stops; pnl_transaction is called with
\* price_col and multiplier only, and what it raises is raised
TruncateTradesOnStops(chains, args) ==
    IF ~Given(args.stop_loss) /\ ~Given(args.take_profit) THEN Table(chains)
    ELSE LET leg == PnlTransaction(chains, [price_col |-> args.price_col,
                                            multiplier |-> args.multiplier,
                                            multiplier_col |-> "none",
                                            require_prices |-> FALSE])
         IN  IF leg.error # "none" THEN Raises(leg.error)
             ELSE TruncateLegs(chains, args, leg.table)

\* ---------------------------------------- truncate_trades_on_stops' inputs

MaxDates == 3      \* a trade's rows are dated 1..MaxDates

\* the rows of one leg of quantity 1, one row per date
LegSeries(tid, id, dir, entry, marks) ==
    [d \in 1..Len(marks) |-> Leg(tid, id, d, dir, 1, entry, marks[d], NaN, NaN)]

\* a trade whose trade_pnl_pct is -0.1 and then -0.6
ExampleTrade == LegSeries(2, 3, "L", 10, <<9, 4>>)

\* a trade of one leg whose price never moves
QuietTrade == LegSeries(2, 3, "S", 2, [d \in 1..MaxDates |-> 2])

\* the rows of one leg of quantity 1 that is first seen on the date start
LateSeries(tid, id, dir, entry, mark, start) ==
    [k \in 1..(MaxDates + 1 - start) |-> Leg(tid, id, start + k - 1, dir, 1, entry, mark, NaN, NaN)]

\* trade 1: a long leg entered at 2, priced 0, 1 or 3 on each date, or priced
\* 1 with the price of one date missing
LongSeries ==
    {LegSeries(1, 1, "L", 2, marks) : marks \in SeqsOfLen({0, 1, 3}, MaxDates)}
    \cup {LegSeries(1, 1, "L", 2, [d \in 1..MaxDates |-> IF d = gap THEN NaN ELSE 1]) : gap \in 1..MaxDates}

\* a short leg entered at 1 beside it, on every date
ShortSeries == {LegSeries(1, 2, "S", 1, [d \in 1..MaxDates |-> mark]) : mark \in {1, 2}}

\* a short leg entered at 1 that is first seen on a later date
StaggeredSeries == {LateSeries(1, 2, "S", 1, 1, start) : start \in 2..MaxDates}

Reversed(s) == [k \in 1..Len(s) |-> s[Len(s) + 1 - k]]

\* trade 1 alone or beside a second trade, its rows in date order or reversed
TruncRows ==
    UNION {{rows, Reversed(rows)} :
        rows \in {a \o c : a \in LongSeries, c \in {<<>>, ExampleTrade, QuietTrade}}
                 \cup {a \o b \o c : a \in LongSeries, b \in ShortSeries, c \in {<<>>, QuietTrade}}
                 \cup {a \o b : a \in LongSeries, b \in StaggeredSeries}}

TruncArgs ==
    {[price_col |-> "mark", multiplier |-> 100, stop_loss |-> sl, take_profit |-> tp] :
        sl \in {NoThreshold, [num |-> 1, den |-> 2], [num |-> 0 - 1, den |-> 4]},
        tp \in {NoThreshold, [num |-> 1, den |-> 2]}}

TruncIndexes == {{"trade_filter_id", "id", "date"}, {"id", "date"}}

TruncInit ==
    /\ pc = "start"
    /\ FtIdle
    /\ SelIdle
    /\ BldIdle
    /\ \E rows \in TruncRows, index \in TruncIndexes :
          /\ index = {"id", "date"} => Len(rows) = MaxDates
          /\ option_chains = [cols |-> LegCols, index |-> index, rows |-> rows]
    /\ pnl_kwargs \in TruncArgs
    /\ pnl_out = <<>>
    /\ leg_snap = <<>>
    /\ trade_cost = <<>>
    /\ risk_out = <<>>
    /\ GocIdle

\* one call of truncate_trades_on_stops
TruncateCall ==
    /\ pc = "start"
    /\ pnl_out' = TruncateTradesOnStops(option_chains, pnl_kwargs)
    /\ pc' = "done"
    /\ UNCHANGED <<ftVars, selVars, bldVars, gocVars, option_chains, pnl_kwargs, leg_snap, trade_cost, risk_out>>

TruncNext == TruncateCall

SpecTruncate == TruncInit /\ [][TruncNext]_vars

\* ------------------------- truncate_trades_on_stops on what it returned

\* a second call, with the same thresholds, on the table the first returned;
\* the table the caller gave first is kept in leg_snap
TruncateAgain ==
    /\ pc = "done"
    /\ pnl_out.error = "none"
    /\ leg_snap = <<>>
    /\ leg_snap' = option_chains
    /\ option_chains' = pnl_out.table
    /\ pnl_out' = TruncateTradesOnStops(pnl_out.table, pnl_kwargs)
    /\ pc' = "again"
    /\ UNCHANGED <<ftVars, selVars, bldVars, gocVars, pnl_kwargs, trade_cost, risk_out>>

AgainNext == TruncateCall \/ TruncateAgain

SpecTruncateAgain == TruncInit /\ [][AgainNext]_vars

\* ================================================ _max_loss_gain_from_legs

\* np.inf
Inf == 1000000

\* lines 475-477: option_type.astype(str).str.upper().str.strip()
OptionTypeUpper(option_type) ==
    CASE option_type = "call" -> "CALL"
      [] option_type = " p " -> "P"
      [] OTHER -> option_type

IsCall(leg) == OptionTypeUpper(leg.option_type) \in {"C", "CALL"}
IsPut(leg) == OptionTypeUpper(leg.option_type) \in {"P", "PUT"}

\* lines 482-486: the leg's multiplier_used, the default where it is missing
\* or the column is not there
RiskMult(leg, cols, multiplier) ==
    IF "multiplier_used" \in cols /\ IsNum(leg.multiplier_used) THEN leg.multiplier_used
    ELSE multiplier

\* line 488: ok; the multiplier is finite once the default has filled it
LegOk(leg) ==
    /\ IsNum(leg.strike)
    /\ IsNum(leg.side_sign)
    /\ IsNum(leg.quantity_abs)
    /\ IsCall(leg) \/ IsPut(leg)

\* the legs of the trade that are ok, in their order
RECURSIVE OkLegs(_)
OkLegs(legs) ==
    IF legs = <<>> THEN <<>>
    ELSE (IF LegOk(Head(legs)) THEN <<Head(legs)>> ELSE <<>>) \o OkLegs(Tail(legs))

\* the sum of the values of a sequence of numbers
RECURSIVE SumSeq(_)
SumSeq(s) == IF s = <<>> THEN 0 ELSE Head(s) + SumSeq(Tail(s))

Max2(a, b) == IF a >= b THEN a ELSE b

\* the slope above the highest strike taken over every leg, puts too
SlopeAllLegs(legs, cols, multiplier) ==
    SumSeq([n \in 1..Len(legs) |->
               legs[n].side_sign * legs[n].quantity_abs * RiskMult(legs[n], cols, multiplier)])

\* lines 499-500: slope_high, the sum over the calls of side * qty * mult
SlopeHigh(legs, cols, multiplier) ==
    SumSeq([n \in 1..Len(legs) |->
               IF IsCall(legs[n])
               THEN legs[n].side_sign * legs[n].quantity_abs * RiskMult(legs[n], cols, multiplier)
               ELSE 0])

\* lines 508-513: portfolio_payoff at the terminal price S
PortfolioPayoff(legs, cols, multiplier, S) ==
    SumSeq([n \in 1..Len(legs) |->
               legs[n].side_sign * legs[n].quantity_abs * RiskMult(legs[n], cols, multiplier)
               * (IF IsCall(legs[n]) THEN Max2(S - legs[n].strike, 0)
                  ELSE Max2(legs[n].strike - S, 0))])

\* the strikes alone
SPointsStrikesOnly(legs) == {legs[n].strike : n \in 1..Len(legs)}

\* line 504: S_points, 0 and the strikes
SPoints(legs) == {0} \cup {legs[n].strike : n \in 1..Len(legs)}

\* lines 514-517: pnl_exp at the S_points, its minimum and its maximum
PnlExp(legs, cols, multiplier, cost) ==
    {PortfolioPayoff(legs, cols, multiplier, S) - cost : S \in SPoints(legs)}

MinPnl(pnls) == CHOOSE x \in pnls : \A y \in pnls : x <= y
MaxPnl(pnls) == CHOOSE x \in pnls : \A y \in pnls : x >= y

RiskRow(max_loss, max_gain, unbounded_risk, unbounded_gain) ==
    [max_trade_loss |-> max_loss, max_trade_gain |-> max_gain,
     unbounded_risk |-> unbounded_risk, unbounded_gain |-> unbounded_gain]

\* the extrema as they are, not clipped at 0
RiskOfOkLegsUnclipped(legs, cols, multiplier, cost) ==
    IF Len(legs) = 0 \/ ~IsNum(cost) THEN RiskRow(NaN, NaN, FALSE, FALSE)
    ELSE RiskRow(IF SlopeHigh(legs, cols, multiplier) < 0 THEN Inf
                 ELSE 0 - MinPnl(PnlExp(legs, cols, multiplier, cost)),
                 IF SlopeHigh(legs, cols, multiplier) > 0 THEN Inf
                 ELSE MaxPnl(PnlExp(legs, cols, multiplier, cost)),
                 SlopeHigh(legs, cols, multiplier) < 0,
                 SlopeHigh(legs, cols, multiplier) > 0)

\* lines 497-522, the legs being the ok legs
RiskOfOkLegs(legs, cols, multiplier, cost) ==
    IF Len(legs) = 0 \/ ~IsNum(cost) THEN RiskRow(NaN, NaN, FALSE, FALSE)
    ELSE RiskRow(IF SlopeHigh(legs, cols, multiplier) < 0 THEN Inf
                 ELSE Max2(0, 0 - MinPnl(PnlExp(legs, cols, multiplier, cost))),
                 IF SlopeHigh(legs, cols, multiplier) > 0 THEN Inf
                 ELSE Max2(0, MaxPnl(PnlExp(legs, cols, multiplier, cost))),
                 SlopeHigh(legs, cols, multiplier) < 0,
                 SlopeHigh(legs, cols, multiplier) > 0)

\* the rows of the snapshot that belong to the trade, in their order
RECURSIVE LegsOfTrade(_, _)
LegsOfTrade(rows, tid) ==
    IF rows = <<>> THEN <<>>
    ELSE (IF Head(rows).trade_filter_id = tid THEN <<Head(rows)>> ELSE <<>>)
         \o LegsOfTrade(Tail(rows), tid)

\* lines 448-532: _max_loss_gain_from_legs: one row per trade of trade_cost;
\* a trade with no leg in the snapshot gets NaN in every column
MaxLossGainFromLegs(snap, cost, multiplier) ==
    [tid \in DOMAIN cost |->
        IF "strike" \notin snap.cols \/ "option_type" \notin snap.cols
        THEN RiskRow(NaN, NaN, FALSE, FALSE)
        ELSE IF LegsOfTrade(snap.rows, tid) = <<>> THEN RiskRow(NaN, NaN, NaN, NaN)
        ELSE RiskOfOkLegs(OkLegs(LegsOfTrade(snap.rows, tid)), snap.cols, multiplier, cost[tid])]

\* ---------------------------------------- _max_loss_gain_from_legs' inputs

MaxLegs == 2       \* a trade has 1..MaxLegs legs

SnapCols == {"side_sign", "quantity_abs", "multiplier_used", "strike", "option_type"}

SnapLeg(tid, id, option_type, strike, side, qty, mult) ==
    [trade_filter_id |-> tid, id |-> id, option_type |-> option_type, strike |-> strike,
     side_sign |-> side, quantity_abs |-> qty, multiplier_used |-> mult]

\* a single short call: strike 100, quantity 1, multiplier 100
ExampleShortCall == SnapLeg(1, 1, "C", 100, 0 - 1, 1, 100)

\* legs over two strikes, and two legs that are not ok
RiskLegs ==
    {SnapLeg(1, 0, option_type, strike, side, qty, 100) :
        option_type \in {"call", " p "}, strike \in {1, 3}, side \in {1, 0 - 1}, qty \in {1, 2}}
    \cup {SnapLeg(1, 0, "X", 1, 1, 1, 100), SnapLeg(1, 0, "C", NaN, 0 - 1, 1, 50)}

\* the legs numbered by their place
Numbered(legs) == [n \in 1..Len(legs) |-> [legs[n] EXCEPT !.id = n]]

RiskSnapshots ==
    {<<ExampleShortCall>>}
    \cup UNION {{Numbered(legs) : legs \in SeqsOfLen(RiskLegs, n)} : n \in 1..MaxLegs}

\* trade_cost is a sum of leg costs, so it is never missing
RiskCosts == {0 - 500, 0, 300}

RiskInit ==
    /\ pc = "start"
    /\ FtIdle
    /\ SelIdle
    /\ BldIdle
    /\ option_chains = <<>>
    /\ pnl_out = <<>>
    /\ pnl_kwargs = [multiplier |-> 100]
    /\ \E rows \in RiskSnapshots, cols \in {SnapCols, SnapCols \ {"strike"}, SnapCols \ {"multiplier_used"}} :
          leg_snap = [cols |-> cols, rows |-> rows]
    /\ \E cost \in RiskCosts : trade_cost = [tid \in {1} |-> cost]
    /\ risk_out = <<>>
    /\ GocIdle

\* one call of _max_loss_gain_from_legs
MaxLossGainCall ==
    /\ pc = "start"
    /\ risk_out' = MaxLossGainFromLegs(leg_snap, trade_cost, pnl_kwargs.multiplier)
    /\ pc' = "done"
    /\ UNCHANGED <<ftVars, selVars, bldVars, gocVars, option_chains, pnl_kwargs, pnl_out, leg_snap, trade_cost>>

RiskNext == MaxLossGainCall

SpecRisk == RiskInit /\ [][RiskNext]_vars

\* ======================================================= get_option_chains

ZeroQ == [num |-> 0, den |-> 1]

\* lines 11-13: merge on id, date >= start_date: the rows of one key
KeyRows(rows, key) == {r \in rows : r.id = key[1] /\ r.date >= key[2]}

\* the value of the group's earliest-dated row, missing or not
FirstRowValue(group, column) ==
    (CHOOSE r \in group : \A q \in group : r.date <= q.date)[column]

\* lines 15-17: groupby(["id", "start_date"]).first() of a column of the rows
\* sorted by date: the earliest value that is not missing, NaN when all are
Day0(group, column) ==
    LET filled == {r \in group : IsNum(r[column])}
    IN  IF filled = {} THEN NaN
        ELSE (CHOOSE r \in filled : \A q \in filled : r.date <= q.date)[column]

\* lines 21-27: (x / day0 - 1).fillna(0): nan becomes 0, inf - 1 stays inf
PctChange(x, day0) ==
    IF Quotient(x, day0) = NanQ THEN ZeroQ
    ELSE IF Quotient(x, day0).den = 0 THEN Quotient(x, day0)
    ELSE Quotient(x - day0, day0)

\* lines 19-32: one returned row: the chain row joined with its group's day0
ChainRow(r, key, group) ==
    [id |-> r.id, start_date |-> key[2], date |-> r.date, last |-> r.last, mark |-> r.mark,
     entry_last_price |-> Day0(group, "last"),
     entry_mark_price |-> Day0(group, "mark"),
     trade_last_pct_change |-> PctChange(r.last, Day0(group, "last")),
     trade_mark_pct_change |-> PctChange(r.mark, Day0(group, "mark"))]

\* lines 7-32: get_option_chains: the returned rows; their order is the order
\* of the index (id, start_date, date)
GetOptionChains(ks, rows) ==
    UNION {{ChainRow(r, key, KeyRows(rows, key)) : r \in KeyRows(rows, key)} : key \in ks}

\* ----------------------------------------------- get_option_chains' inputs

\* contract 1 is quoted on the dates 1..MaxDates, contract 2 on date 1
ChainOf(lasts, mark1) ==
    {[id |-> 1, date |-> d, last |-> lasts[d], mark |-> IF d = 1 THEN mark1 ELSE 1] : d \in 1..MaxDates}
    \cup {[id |-> 2, date |-> 1, last |-> 2, mark |-> 1]}

ChainData == {ChainOf(lasts, mark1) : lasts \in SeqsOfLen({0, 2, 3, NaN}, MaxDates), mark1 \in {0, 1, NaN}}

\* the keys are pairs without repetition; contract 3 is not in the chain
ChainKeys == SUBSET {<<1, 1>>, <<1, 2>>, <<2, 1>>, <<3, 1>>}

GocInit ==
    /\ pc = "start"
    /\ FtIdle
    /\ SelIdle
    /\ BldIdle
    /\ PnlIdle
    /\ keys \in ChainKeys
    /\ data \in ChainData
    /\ chains_out = {}

\* one call of get_option_chains
GetOptionChainsCall ==
    /\ pc = "start"
    /\ chains_out' = GetOptionChains(keys, data)
    /\ pc' = "done"
    /\ UNCHANGED <<ftVars, selVars, bldVars, pnlVars, keys, data>>

GocNext == GetOptionChainsCall

SpecChains == GocInit /\ [][GocNext]_vars

\* ================================================================ pnl_trade

\* np.cumsum over the values f takes on S: missing once one of them is
SumNa(f, S) == IF \E x \in S : ~IsNum(f[x]) THEN NaN ELSE SumSkipNa(f, S)

Plus(a, b) == IF IsNum(a) /\ IsNum(b) THEN a + b ELSE NaN

Latest(S) == CHOOSE x \in S : \A y \in S : x >= y

\* the (trade_filter_id, id) pairs of a table in the order they first appear
RECURSIVE LegKeys(_)
LegKeys(rows) ==
    IF rows = <<>> THEN <<>>
    ELSE LET before == LegKeys(SubSeq(rows, 1, Len(rows) - 1))
             key == <<rows[Len(rows)].trade_filter_id, rows[Len(rows)].id>>
         IN  IF \E k \in 1..Len(before) : before[k] = key THEN before
             ELSE Append(before, key)

\* lines 418-429: the snapshot's columns
SnapshotCols(cols) ==
    {"entry_price", "entry_notional_abs", "leg_cost", "side_sign", "quantity_abs",
     "multiplier_used", "leg_start_date"}
    \cup (cols \cap {"strike", "option_type", "ticker", "expiration"})

\* lines 431-443: the snapshot's row of one leg: first() of each column and
\* the leg's earliest date.  option_type and ticker are never missing in a
\* table here, so their first value is that of the leg's first row.  frame is
\* the table pnl_transaction was given and leg the one it returned, row by
\* row; no table here has a leg_id column.
SnapshotRow(frame, leg, tid, id) ==
    [trade_filter_id |-> tid,
     id |-> id,
     entry_price |-> SnapshotFirst(leg, tid, id, "entry_price"),
     entry_notional_abs |-> SnapshotFirst(leg, tid, id, "entry_notional_abs"),
     leg_cost |-> SnapshotFirst(leg, tid, id, "leg_cost"),
     side_sign |-> SnapshotFirst(leg, tid, id, "side_sign"),
     quantity_abs |-> SnapshotFirst(leg, tid, id, "quantity_abs"),
     multiplier_used |-> SnapshotFirst(leg, tid, id, "multiplier_used"),
     strike |-> IF "strike" \in frame.cols THEN SnapshotFirst(frame.rows, tid, id, "strike") ELSE NaN,
     option_type |-> IF "option_type" \in frame.cols
                     THEN frame.rows[Earliest(RowsOfLeg(frame.rows, tid, id))].option_type
                     ELSE "none",
     ticker |-> IF "ticker" \in frame.cols
                THEN frame.rows[Earliest(RowsOfLeg(frame.rows, tid, id))].ticker
                ELSE "none",
     leg_start_date |-> Earliest({leg[n].date : n \in RowsOfLeg(leg, tid, id)})]

\* lines 405-445: _trade_leg_snapshot
TradeLegSnapshot(frame, leg) ==
    [cols |-> SnapshotCols(frame.cols),
     rows |-> [k \in 1..Len(LegKeys(leg)) |->
                  SnapshotRow(frame, leg, LegKeys(leg)[k][1], LegKeys(leg)[k][2])]]

\* the snapshot's rows of a trade
SnapOfTrade(snap, tid) == {k \in 1..Len(snap.rows) : snap.rows[k].trade_filter_id = tid}

\* line 594: trade_cost_const
TradeCostConst(snap, tid) ==
    SumSkipNa([k \in SnapOfTrade(snap, tid) |-> snap.rows[k].leg_cost], SnapOfTrade(snap, tid))

\* lines 595-599: trade_cost_abs_const, a zero sum replaced by NaN
TradeCostAbsConst(snap, tid) ==
    LET total == SumSkipNa([k \in SnapOfTrade(snap, tid) |-> snap.rows[k].entry_notional_abs],
                           SnapOfTrade(snap, tid))
    IN  IF total = 0 THEN NaN ELSE total

\* lines 611-618: searchsorted(starts, dts, side="right") counts the legs
\* of the trade whose start is on or before the date
ActiveLegs(snap, tid, date) ==
    {k \in SnapOfTrade(snap, tid) : snap.rows[k].leg_start_date <= date}

\* lines 615, 619: cost_t
DynCost(snap, tid, date) ==
    IF ActiveLegs(snap, tid, date) = {} THEN 0
    ELSE SumNa([k \in ActiveLegs(snap, tid, date) |-> snap.rows[k].leg_cost],
               ActiveLegs(snap, tid, date))

\* lines 616, 620: abs_t
DynAbs(snap, tid, date) ==
    IF ActiveLegs(snap, tid, date) = {} THEN NaN
    ELSE SumNa([k \in ActiveLegs(snap, tid, date) |-> snap.rows[k].entry_notional_abs],
               ActiveLegs(snap, tid, date))

\* lines 602-632: trade_cost and trade_cost_abs of a row
TradeCost(snap, tid, date, args) ==
    IF args.dynamic_cost /\ "leg_start_date" \in snap.cols THEN DynCost(snap, tid, date)
    ELSE TradeCostConst(snap, tid)

TradeCostAbs(snap, tid, date, args) ==
    IF args.dynamic_cost /\ "leg_start_date" \in snap.cols THEN DynAbs(snap, tid, date)
    ELSE TradeCostAbsConst(snap, tid)

\* lines 645-648: n_tickers of a trade
NTickers(frame, tid) ==
    IF "ticker" \in frame.cols
    THEN Cardinality({frame.rows[n].ticker : n \in RowsOfTrade(frame.rows, tid)})
    ELSE 1

\* lines 654-665: the risk columns of a trade: those of the single-ticker
\* trades come from _max_loss_gain_from_legs, the others are missing
TradeRisk(frame, snap, tid, args) ==
    LET single == {t \in {snap.rows[k].trade_filter_id : k \in 1..Len(snap.rows)} :
                      NTickers(frame, t) = 1}
        member(row) == row.trade_filter_id \in single
    IN  IF tid \notin single THEN RiskRow(NaN, NaN, NaN, NaN)
        ELSE MaxLossGainFromLegs([cols |-> snap.cols, rows |-> SelectSeq(snap.rows, member)],
                                 [t \in single |-> TradeCostConst(snap, t)],
                                 args.multiplier)[tid]

\* the ratio without the test of the sign of trade_pnl
GainLossRatioAnySign(trade_pnl, max_trade_loss) ==
    LET glr == IF max_trade_loss = Inf THEN ZeroQ
               ELSE Quotient(trade_pnl, IF max_trade_loss = 0 THEN NaN ELSE max_trade_loss)
    IN  IF glr.den = 0 THEN ZeroQ ELSE glr

\* lines 668-671: gain_loss_ratio; a finite value over inf is 0
GainLossRatio(trade_pnl, max_trade_loss) ==
    LET glr == IF trade_pnl > 0
               THEN IF max_trade_loss = Inf THEN ZeroQ
                    ELSE Quotient(trade_pnl, IF max_trade_loss = 0 THEN NaN ELSE max_trade_loss)
               ELSE ZeroQ
    IN  IF glr.den = 0 THEN ZeroQ ELSE glr

\* lines 573-676: the row of a trade on a date
TradeRow(frame, leg, snap, tid, date, args) ==
    LET trade_pnl == SumSkipNa([n \in RowsOnDate(leg, tid, date) |-> leg[n].pnl],
                               RowsOnDate(leg, tid, date))
        dates == {leg[n].date : n \in RowsOfTrade(leg, tid)}
        cost == TradeCost(snap, tid, date, args)
        cost_abs == TradeCostAbs(snap, tid, date, args)
        risk == TradeRisk(frame, snap, tid, args)
    IN  [trade_filter_id |-> tid,
         date |-> date,
         trade_pnl |-> trade_pnl,
         trade_date |-> Earliest(dates),
         sell_date |-> Latest(dates),
         holding_days |-> Latest(dates) - Earliest(dates),
         trade_cost |-> cost,
         trade_cost_abs |-> cost_abs,
         trade_entry_notional_abs |-> cost_abs,
         trade_pnl_pct |-> Quotient(trade_pnl, cost_abs),
         trade_value |-> Plus(cost, trade_pnl),
         trade_pnl_pct_cost |-> Quotient(trade_pnl, IF IsNum(cost) /\ cost # 0 THEN Abs(cost) ELSE NaN),
         trade_n_legs |-> Cardinality(SnapOfTrade(snap, tid)),
         trade_n_contracts |-> SumSkipNa([k \in SnapOfTrade(snap, tid) |-> snap.rows[k].quantity_abs],
                                         SnapOfTrade(snap, tid)),
         trade_n_tickers |-> NTickers(frame, tid),
         multi_ticker_trade |-> NTickers(frame, tid) > 1,
         max_trade_loss |-> risk.max_trade_loss,
         max_trade_gain |-> risk.max_trade_gain,
         unbounded_risk |-> risk.unbounded_risk,
         unbounded_gain |-> risk.unbounded_gain,
         gain_loss_ratio |-> GainLossRatio(trade_pnl, risk.max_trade_loss),
         trade_pnl_over_cost_abs |-> Quotient(trade_pnl, cost_abs),
         trade_cost_pct_of_gross |-> Quotient(cost, cost_abs)]

\* line 676: sort_index(): the rows by trade_filter_id and then by date
RECURSIVE SortIndex(_)
SortIndex(index) ==
    IF index = {} THEN <<>>
    ELSE LET k == CHOOSE x \in index :
                      \A y \in index : x[1] < y[1] \/ (x[1] = y[1] /\ x[2] <= y[2])
         IN  <<k>> \o SortIndex(index \ {k})

\* lines 569-676, leg being what pnl_transaction returned for df; the
\* snapshot is taken once
TradeOfLegs(frame, leg, args) ==
    IF ~({"trade_filter_id", "date"} \subseteq (frame.index \cup frame.cols)) THEN Raises("KeyError")
    ELSE LET index == SortIndex({<<leg[n].trade_filter_id, leg[n].date>> : n \in 1..Len(leg)})
         IN  CHOOSE series \in {Table([k \in 1..Len(index) |->
                                          TradeRow(frame, leg, snap, index[k][1], index[k][2], args)]) :
                                   snap \in {TradeLegSnapshot(frame, leg)}} : TRUE

\* lines 563-676, frame being df, the table after the truncation:
\* pnl_transaction is called once, with multiplier_col
TradeSeries(frame, args) ==
    CHOOSE series \in {IF leg.error # "none" THEN Raises(leg.error)
                       ELSE TradeOfLegs(frame, leg.table, args) :
                          leg \in {PnlTransaction(frame, [price_col |-> args.price_col,
                                                          multiplier |-> args.multiplier,
                                                          multiplier_col |-> args.multiplier_col,
                                                          require_prices |-> FALSE])}} : TRUE

\* lines 553-561: df: the table truncated when truncate is set and a
\* threshold is given; truncate_trades_on_stops gets price_col, the
\* thresholds and multiplier, and neither multiplier_col nor dynamic_cost
TradeInput(chains, args) ==
    IF args.truncate /\ (Given(args.stop_loss) \/ Given(args.take_profit))
    THEN TruncateTradesOnStops(chains, args)
    ELSE Table(chains)

\* lines 534-676: pnl_trade; what the truncation raises is raised
PnlTrade(chains, args) ==
    CHOOSE series \in {IF frame.error # "none" THEN Raises(frame.error)
                       ELSE TradeSeries(frame.table, args) :
                          frame \in {TradeInput(chains, args)}} : TRUE

\* ------------------------------------------------------ pnl_trade's inputs

TradeCols == LegCols \cup {"leg_multiplier", "strike", "option_type", "ticker"}

\* the rows of one leg of quantity 1 from the date start on, one row per
\* date, the prices of the dates in marks
OptionSeries(id, dir, entry, marks, lm, option_type, strike, ticker, start) ==
    [k \in 1..(Len(marks) + 1 - start) |->
        Leg(1, id, start + k - 1, dir, 1, entry, marks[start + k - 1], NaN, lm)
        @@ [option_type |-> option_type, strike |-> strike, ticker |-> ticker]]

\* the entry prices of short put, long put, short call and long call
CondorEntries == {<<1, 2, 1, 2>>, <<2, 1, 2, 1>>, <<1, 1, 1, 1>>, <<0, 0, 0, 0>>}

\* an iron condor on one ticker with the strikes 1 < 2 < 3 < 4, every leg at
\* the same price on a date
IronCondors ==
    {OptionSeries(1, "S", entry[1], marks, NaN, "P", 1, "A", 1)
     \o OptionSeries(2, "L", entry[2], marks, NaN, "P", 2, "A", 1)
     \o OptionSeries(3, "S", entry[3], marks, NaN, "C", 3, "A", 1)
     \o OptionSeries(4, "L", entry[4], marks, NaN, "C", 4, "A", 1) :
        entry \in CondorEntries, marks \in SeqsOfLen({1, 3}, MaxDates)}

\* the short call's entry price, multiplier and ticker beside a long call
\* entered at 2, and both calls entered at 0
PairKinds ==
    {<<2, 1, NaN, "A">>, <<2, 1, 50, "A">>, <<2, 1, NaN, "B">>, <<2, NaN, NaN, "A">>,
     <<0, 0, NaN, "A">>}

\* a long call at strike 1 and a short call at strike 3 that is first seen
\* on any date
CallPairs ==
    {OptionSeries(1, "L", kind[1], marks, NaN, "C", 1, "A", 1)
     \o OptionSeries(2, "S", kind[2], [d \in 1..MaxDates |-> 1], kind[3], "C", 3, kind[4], start) :
        kind \in PairKinds, marks \in SeqsOfLen({0, 1, 3}, MaxDates), start \in 1..MaxDates}

\* one leg: a long call, a short call, or a long leg of no known type
SingleLegs ==
    {OptionSeries(1, kind[1], entry, marks, NaN, kind[2], 1, "A", 1) :
        kind \in {<<"L", "call">>, <<"S", "call">>, <<"L", "X">>},
        entry \in {0, 2}, marks \in SeqsOfLen({0, 1, 3}, MaxDates)}

\* stop_loss, take_profit and truncate
TradeStops ==
    {<<NoThreshold, NoThreshold, TRUE>>, <<[num |-> 1, den |-> 2], NoThreshold, TRUE>>,
     <<NoThreshold, [num |-> 1, den |-> 2], TRUE>>, <<[num |-> 1, den |-> 2], NoThreshold, FALSE>>}

TradeArgs ==
    {[price_col |-> "mark", stop_loss |-> stops[1], take_profit |-> stops[2], truncate |-> stops[3],
      multiplier |-> 100, multiplier_col |-> mcol, dynamic_cost |-> dyn] :
        stops \in TradeStops, mcol \in {"none", "leg_multiplier"}, dyn \in BOOLEAN}

TradeInit ==
    /\ pc = "start"
    /\ FtIdle
    /\ SelIdle
    /\ BldIdle
    /\ pnl_kwargs \in TradeArgs
    /\ \/ \E rows \in IronCondors \cup CallPairs :
             option_chains = [cols |-> TradeCols, index |-> {"trade_filter_id", "id", "date"}, rows |-> rows]
       \/ \E rows \in SingleLegs, missing \in {"none", "ticker", "strike", "quantity"} :
             /\ pnl_kwargs.multiplier_col = "none"
             /\ ~pnl_kwargs.dynamic_cost
             /\ option_chains = [cols |-> TradeCols \ {missing}, index |-> {"trade_filter_id", "id", "date"},
                                 rows |-> rows]
    /\ pnl_out = <<>>
    /\ leg_snap = <<>>
    /\ trade_cost = <<>>
    /\ risk_out = <<>>
    /\ GocIdle

\* one call of pnl_trade
PnlTradeCall ==
    /\ pc = "start"
    /\ pnl_out' = PnlTrade(option_chains, pnl_kwargs)
    /\ pc' = "done"
    /\ UNCHANGED <<ftVars, selVars, bldVars, gocVars, option_chains, pnl_kwargs, leg_snap, trade_cost, risk_out>>

TradeNext == PnlTradeCall

SpecTrade == TradeInit /\ [][TradeNext]_vars

\* ------------------------------------- pnl_trade with and without dynamic_cost

\* a second call on the same table with dynamic_cost switched; what the first
\* call returned is kept in leg_snap
PnlTradeOtherCost ==
    /\ pc = "done"
    /\ leg_snap = <<>>
    /\ leg_snap' = pnl_out
    /\ pnl_kwargs' = [pnl_kwargs EXCEPT !.dynamic_cost = ~pnl_kwargs.dynamic_cost]
    /\ pnl_out' = PnlTrade(option_chains, pnl_kwargs')
    /\ pc' = "again"
    /\ UNCHANGED <<ftVars, selVars, bldVars, gocVars, option_chains, trade_cost, risk_out>>

\* the first call is the one with dynamic_cost = true
BothCostsInit == TradeInit /\ pnl_kwargs.dynamic_cost

BothCostsNext == PnlTradeCall \/ PnlTradeOtherCost

SpecBothCosts == BothCostsInit /\ [][BothCostsNext]_vars

\* ------------------------------------------------------------------ C1
\* C1: the episodes find_trades returns for one ticker, taken in ascending
\* start order, have disjoint trading-day ranges: with start_pos the start
\* row's index in the ticker and end_pos = start_pos + days_to_threshold,
\* end_pos(i) < start_pos(i+1).
EpisodesDisjoint ==
    pc = "done" =>
        \A i \in 1..Len(out) : \A j \in 1..Len(out) :
            (/\ i # j
             /\ out[i].ticker = out[j].ticker
             /\ out[i].episode_start_date <= out[j].episode_start_date)
            => out[i].episode_start_date + out[i].days_to_threshold
                 < out[j].episode_start_date

\* two episodes of one ticker are returned, the second starting right after
\* the first one's end
WitnessTwoEpisodes ==
    /\ pc = "done"
    /\ \E i \in 1..Len(out) : \E j \in 1..Len(out) :
          /\ out[i].ticker = out[j].ticker
          /\ out[j].episode_start_date
               = out[i].episode_start_date + out[i].days_to_threshold + 1
    /\ Len(candidates) > Len(out)

\* ------------------------------------------------------------------ C2
\* the input price of ticker t at trading-day index p (0-based), NaN outside
PriceAt(t, p) ==
    IF p >= 0 /\ p < Len(stock_data[t]) THEN stock_data[t][p + 1] ELSE NaN

\* the move from price s to price f meets the threshold in the direction
MoveMeets(s, f) ==
    /\ IsNum(s) /\ IsNum(f) /\ s > 0
    /\ IF direction = "U"
       THEN 100 * (f - s) >= up_x_pct * s
       ELSE 100 * (f - s) <= (0 - up_x_pct) * s

\* C2: every returned episode has 1 <= days_to_threshold <= N and
\* start_price > 0, its end_price is the same ticker's price exactly
\* days_to_threshold rows after the start row, the move from start_price to
\* end_price meets the threshold in the configured direction, and no offset
\* k with 1 <= k < days_to_threshold from the start row meets it.
EarliestHit ==
    pc = "done" =>
        \A n \in 1..Len(out) :
            LET e == out[n]
                p == e.episode_start_date
            IN  /\ 1 <= e.days_to_threshold /\ e.days_to_threshold <= in_x_days
                /\ Gt(e.start_price, 0)
                /\ e.start_price = PriceAt(e.ticker, p)
                /\ p + e.days_to_threshold < Len(stock_data[e.ticker])
                /\ e.end_price = PriceAt(e.ticker, p + e.days_to_threshold)
                /\ MoveMeets(e.start_price, e.end_price)
                /\ \A k \in 1..(e.days_to_threshold - 1) :
                      ~MoveMeets(e.start_price, PriceAt(e.ticker, p + k))

\* an episode whose threshold is first met two rows after its start, the row
\* in between holding a price that does not meet it
WitnessLateHit ==
    /\ pc = "done"
    /\ \E n \in 1..Len(out) :
          /\ out[n].days_to_threshold = 2
          /\ IsNum(PriceAt(out[n].ticker, out[n].episode_start_date + 1))

\* ------------------------------------------------------------------ C3
\* the contracts of the chain that are candidates of request t once the
\* type, (ticker, date), non-negative-DTE, liquidity, quote and exclusion
\* filters have been applied
PassedFilters(t) ==
    {i \in DOMAIN options_data :
        LET o == options_data[i]
            r == requests[t]
        IN  /\ o.option_type = kwargs.option_type
            /\ o.ticker = r.ticker /\ o.date = r.date
            /\ o.days_till_expiration # NaN /\ o.days_till_expiration >= 0
            /\ (kwargs.min_open_interest = None \/ "open_interest" \notin opt_cols
                  \/ (o.open_interest # NaN
                       /\ o.open_interest >= kwargs.min_open_interest))
            /\ (kwargs.min_volume = None \/ "volume" \notin opt_cols
                  \/ (o.volume # NaN /\ o.volume >= kwargs.min_volume))
            /\ (~kwargs.require_quotes \/ "bid" \notin opt_cols
                  \/ "ask" \notin opt_cols
                  \/ (o.bid # NaN /\ o.ask # NaN /\ o.bid >= 0 /\ o.ask >= o.bid))
            /\ ~(t \in DOMAIN kwargs.exclude_ids /\ kwargs.exclude_ids[t] = i)}

\* |days_till_expiration - days_till_expiration_target| of contract i for t
TargetGap(t, i) ==
    Abs(options_data[i].days_till_expiration
          - requests[t].days_till_expiration_target)

\* C3: for every returned row, the selected contract's distance
\* |days_till_expiration - days_till_expiration_target| is the minimum of
\* that distance over all candidates of its trade_filter_id that passed the
\* type, (ticker, date), non-negative-DTE, liquidity, quote and exclusion
\* filters; the days_till_expiration the row reports is at that distance too.
NearestDteSelected ==
    pc = "done" =>
        \A t \in DOMAIN sel_out :
            /\ \E j \in PassedFilters(t) : TargetGap(t, j) = TargetGap(t, sel_out[t].id)
            /\ \A j \in PassedFilters(t) : TargetGap(t, sel_out[t].id) <= TargetGap(t, j)
            /\ Abs(sel_out[t].days_till_expiration
                     - requests[t].days_till_expiration_target)
                 = TargetGap(t, sel_out[t].id)

\* a row is returned although a passing candidate lies farther from the
\* target and a contract of the same type and (ticker, date), nearer to the
\* target than the selected one, was filtered out
WitnessNearestDte ==
    /\ pc = "done"
    /\ \E t \in DOMAIN sel_out :
          /\ \E j \in PassedFilters(t) : TargetGap(t, j) > TargetGap(t, sel_out[t].id)
          /\ \E k \in DOMAIN options_data \ PassedFilters(t) :
                /\ options_data[k].option_type = kwargs.option_type
                /\ options_data[k].date = requests[t].date
                /\ options_data[k].days_till_expiration >= 0
                /\ TargetGap(t, k) < TargetGap(t, sel_out[t].id)

\* ------------------------------------------------------------------ C5
\* exclude_ids without the entry of trade_filter_id t
WithoutExclusionOf(t) ==
    [kwargs EXCEPT !.exclude_ids =
        [u \in (DOMAIN kwargs.exclude_ids) \ {t} |-> kwargs.exclude_ids[u]]]

\* C5: when exclude_ids maps trade_filter_id t to contract id x, the row
\* returned for t never has id x, and every other trade_filter_id u gets
\* exactly the row it gets when t's exclusion is left out (x stays
\* selectable for u).
ExclusionPerTrade ==
    pc = "done" =>
        \A t \in DOMAIN kwargs.exclude_ids :
            /\ t \in DOMAIN sel_out => sel_out[t].id # kwargs.exclude_ids[t]
            /\ LET other == Select(options_data, opt_cols, requests,
                                   WithoutExclusionOf(t))
               IN  \A u \in (DOMAIN requests) \ {t} :
                     /\ u \in DOMAIN sel_out <=> u \in DOMAIN other
                     /\ u \in DOMAIN sel_out => sel_out[u] = other[u]

\* t gets a row other than its excluded contract x, which it would have got
\* without the exclusion, while another trade_filter_id is given x
WitnessExclusion ==
    /\ pc = "done"
    /\ \E t \in DOMAIN kwargs.exclude_ids :
          /\ t \in DOMAIN sel_out
          /\ t \in DOMAIN Select(options_data, opt_cols, requests, WithoutExclusionOf(t))
          /\ Select(options_data, opt_cols, requests, WithoutExclusionOf(t))[t].id
               = kwargs.exclude_ids[t]
          /\ \E u \in (DOMAIN sel_out) \ {t} : sel_out[u].id = kwargs.exclude_ids[t]

\* ------------------------------------------------------------------ C4
\* the candidates of request t that survive the nearest-DTE filter with a
\* finite target distance
ClaimDist(t, i) ==
    LET v == IF kwargs.target_kind = "pct" THEN options_data[i].pct_from_strike
             ELSE options_data[i].price
    IN  IF v = NaN \/ requests[t].target = NaN THEN NaN
        ELSE Abs(kwargs.den * v - requests[t].target)

RankedCandidates(t) ==
    {i \in PassedFilters(t) :
        /\ \A j \in PassedFilters(t) : TargetGap(t, i) <= TargetGap(t, j)
        /\ ClaimDist(t, i) # NaN}

\* a smaller value first, a missing value after every present one
Sooner(x, y) == x # NaN /\ (y = NaN \/ x < y)

\* a larger value first, a missing value after every present one
Later(x, y) == x # NaN /\ (y = NaN \/ x > y)

ClaimSpread(i) ==
    IF {"bid", "ask"} \subseteq opt_cols
         /\ options_data[i].bid # NaN /\ options_data[i].ask # NaN
    THEN Abs(options_data[i].ask - options_data[i].bid) ELSE NaN

ClaimOi(i) == IF "open_interest" \in opt_cols THEN options_data[i].open_interest ELSE NaN

ClaimVolume(i) == IF "volume" \in opt_cols THEN options_data[i].volume ELSE NaN

\* contract i comes before contract j for request t in the order: target
\* distance ascending, then bid/ask spread ascending, then open_interest
\* descending, then volume descending, then contract id ascending
ComesFirst(t, i, j) ==
    \/ Sooner(ClaimDist(t, i), ClaimDist(t, j))
    \/ /\ ClaimDist(t, i) = ClaimDist(t, j)
       /\ \/ Sooner(ClaimSpread(i), ClaimSpread(j))
          \/ /\ ClaimSpread(i) = ClaimSpread(j)
             /\ \/ Later(ClaimOi(i), ClaimOi(j))
                \/ /\ ClaimOi(i) = ClaimOi(j)
                   /\ \/ Later(ClaimVolume(i), ClaimVolume(j))
                      \/ /\ ClaimVolume(i) = ClaimVolume(j)
                         /\ i < j

\* C4: for every trade_filter_id with a result, the returned contract id is
\* the first, among the candidates surviving the nearest-DTE filter with
\* finite target distance, in the order: target distance ascending, then
\* bid/ask spread ascending (when the chain carries bid and ask), then
\* open_interest descending, then volume descending, then id ascending
\* (a missing spread, open_interest or volume ranking after a present one).
TieBreakOrder ==
    pc = "done" =>
        \A t \in DOMAIN sel_out :
            /\ sel_out[t].id \in RankedCandidates(t)
            /\ \A j \in RankedCandidates(t) \ {sel_out[t].id} :
                  ComesFirst(t, sel_out[t].id, j)

\* the returned contract ties on distance and spread with a candidate of
\* smaller id and wins on open_interest, and beats another on volume only
WitnessTieBreak ==
    /\ pc = "done"
    /\ \E t \in DOMAIN sel_out :
          LET i == sel_out[t].id
          IN  /\ \E j \in RankedCandidates(t) :
                    /\ j < i
                    /\ ClaimDist(t, j) = ClaimDist(t, i)
                    /\ ClaimSpread(j) = ClaimSpread(i) /\ ClaimSpread(i) # NaN
                    /\ ClaimOi(j) # NaN /\ ClaimOi(i) > ClaimOi(j)
              /\ \E j \in RankedCandidates(t) :
                    /\ j < i
                    /\ ClaimDist(t, j) = ClaimDist(t, i)
                    /\ ClaimSpread(j) = ClaimSpread(i)
                    /\ ClaimOi(j) = ClaimOi(i)
                    /\ ClaimVolume(i) > ClaimVolume(j)

\* ------------------------------------------------- the Position table
\* the rows of the returned Position table, by position
OutTable == pos_out.table

OutRows == 1..Len(OutTable)

RowsOf(t) == {n \in OutRows : OutTable[n].trade_filter_id = t}

OutTids == {OutTable[n].trade_filter_id : n \in OutRows}

\* the contract of row n as the chain quotes it on the entry date
LegQuote(n) == options_data[OutTable[n].id]

\* rows n and m are the long and the short leg of one trade
LongAndShort(n, m) ==
    /\ OutTable[n].trade_filter_id = OutTable[m].trade_filter_id
    /\ OutTable[n].direction = "L"
    /\ OutTable[m].direction = "S"

\* ------------------------------------------------------------------ C6
\* C6: for every trade_filter_id in the output of
\* find_bull_call_debit_spread_ids or find_bear_put_debit_spread_ids the long
\* leg's price on the entry date is strictly greater than the short leg's
\* price; a trade with either price missing is not in the output.
DebitLongDearer ==
    (pc = "done" /\ strategy \in {"bull_call_debit", "bear_put_debit"}) =>
        \A n, m \in OutRows :
            LongAndShort(n, m) => Gt(LegQuote(n).price, LegQuote(m).price)

\* ------------------------------------------------------------------ C7
LegCount(s) ==
    CASE s \in {"bull_call_debit", "bear_put_debit", "bull_put_credit",
                "bear_call_credit", "straddle", "call_backspread", "backspread",
                "call_calendar"} -> 2
      [] s \in {"bull_put_tail", "bear_put_tail", "jade_lizard",
                "split_strangle"} -> 3
      [] s = "iron_condor" -> 4

\* C7: in the Position table returned by any multi-leg builder every
\* trade_filter_id that appears has exactly the strategy's full number of
\* leg rows (2, 3 or 4); a trade with a missing leg selection or a failed
\* sanity check contributes no row at all.
FullLegsOrNone ==
    (pc = "done" /\ strategy \in StrategyNames) =>
        \A t \in OutTids : Cardinality(RowsOf(t)) = LegCount(strategy)

\* of two iron condor trades the first is returned with its four legs, the
\* second, which has a short put but fails as a whole, leaves no row
WitnessTradeDropped ==
    /\ pc = "done"
    /\ strategy = "iron_condor"
    /\ Len(trade_filter) = 2
    /\ OutTids = {0}
    /\ Len(OutTable) = 4
    /\ 1 \in DOMAIN SelectPct(options_data, opt_cols, BaseReq(trade_filter), "P",
                              params.pct[1], params.dte, <<>>)

\* ------------------------------------------------------------------ C8
\* C8: in the Position table returned by any multi-leg builder no contract
\* id is used by two different legs of the same trade_filter_id; in the
\* 3-leg tail-put builders the tail leg's id differs from the short leg's
\* and the long leg's id.
NoContractTwice ==
    (pc = "done" /\ strategy \in StrategyNames) =>
        \A n, m \in OutRows :
            (n # m /\ OutTable[n].trade_filter_id = OutTable[m].trade_filter_id)
                => OutTable[n].id # OutTable[m].id

\* the tail selection of the second trade is the short leg's contract, that
\* trade is not returned, and the first trade is returned with three
\* different contracts
WitnessTailIsShort ==
    /\ pc = "done"
    /\ strategy = "bull_put_tail"
    /\ Len(trade_filter) = 2
    /\ OutTids = {0}
    /\ Cardinality({OutTable[n].id : n \in OutRows}) = 3
    /\ LET req == BaseReq(trade_filter)
           short_sel == SelectPct(options_data, opt_cols, req, "P", params.pct[1],
                                  params.dte, <<>>)
           long_sel == SecondPut(options_data, opt_cols, req, params.pct[1],
                                 params.pct[2], params.dte)
           tail_sel == SelectPct(options_data, opt_cols, req, "P", params.pct[3],
                                 params.dte, IdsOf(long_sel))
       IN  /\ 1 \in ValidIntersection(<<short_sel, long_sel, tail_sel>>)
           /\ tail_sel[1].id = short_sel[1].id
           /\ tail_sel[1].id # long_sel[1].id

\* ------------------------------------------------------------------ C9
\* rows lp, sp, sc, lc are the long put, short put, short call and long call
\* of one iron condor trade
CondorLegs(lp, sp, sc, lc) ==
    /\ LongAndShort(lp, sp) /\ LongAndShort(lc, sc)
    /\ OutTable[lp].trade_filter_id = OutTable[lc].trade_filter_id
    /\ LegQuote(lp).option_type = "P" /\ LegQuote(sp).option_type = "P"
    /\ LegQuote(sc).option_type = "C" /\ LegQuote(lc).option_type = "C"

\* C9: for every trade_filter_id in the output of find_iron_condor_ids, on a
\* chain carrying strike, long-put strike < short-put strike < short-call
\* strike < long-call strike; a trade with a missing strike is not in the
\* output.
CondorStrikesOrdered ==
    (pc = "done" /\ strategy = "iron_condor" /\ "strike" \in opt_cols) =>
        \A lp, sp, sc, lc \in OutRows :
            CondorLegs(lp, sp, sc, lc) =>
                /\ Lt(LegQuote(lp).strike, LegQuote(sp).strike)
                /\ Lt(LegQuote(sp).strike, LegQuote(sc).strike)
                /\ Lt(LegQuote(sc).strike, LegQuote(lc).strike)

\* ------------------------------------------------------------------ C10
\* C10: for every trade_filter_id in the output of find_backspread_ids the
\* long leg's price is strictly less than the short leg's price, the long
\* strike is strictly below the short strike and, when supplied,
\* short_strike - long_strike <= max_strike_width and
\* (short_strike - long_strike) / short_strike <= max_strike_width_pct; for
\* find_call_backspread_ids the long leg is strictly cheaper and, on a chain
\* carrying strike, its strike is strictly above the short strike.
BackspreadCheaperAndFarther ==
    (pc = "done" /\ strategy \in {"backspread", "call_backspread"}) =>
        \A n, m \in OutRows :
            LongAndShort(n, m) =>
                /\ Lt(LegQuote(n).price, LegQuote(m).price)
                /\ strategy = "backspread" =>
                      /\ Lt(LegQuote(n).strike, LegQuote(m).strike)
                      /\ WidthOk(LegQuote(n).strike, LegQuote(m).strike,
                                 params.max_strike_width, params.max_strike_width_pct)
                /\ (strategy = "call_backspread" /\ "strike" \in opt_cols) =>
                      Gt(LegQuote(n).strike, LegQuote(m).strike)

\* ------------------------------------------------------------------ C11
\* C11: for every trade_filter_id in the output of find_call_calendar_ids the
\* long leg's days_till_expiration is strictly greater than the short leg's
\* and, when the chain carries strike, the two legs have equal strikes.
CalendarLongerSameStrike ==
    (pc = "done" /\ strategy = "call_calendar") =>
        \A n, m \in OutRows :
            LongAndShort(n, m) =>
                /\ Gt(LegQuote(n).days_till_expiration,
                      LegQuote(m).days_till_expiration)
                /\ "strike" \in opt_cols =>
                      /\ IsNum(LegQuote(n).strike)
                      /\ IsNum(LegQuote(m).strike)
                      /\ LegQuote(n).strike = LegQuote(m).strike

\* the part of C11 on the expirations alone
CalendarLongerDated ==
    (pc = "done" /\ strategy = "call_calendar") =>
        \A n, m \in OutRows :
            LongAndShort(n, m) =>
                Gt(LegQuote(n).days_till_expiration,
                   LegQuote(m).days_till_expiration)

\* ------------------------------------------------------------------ C12
\* rows s, lc, lp are the short call, long call and long put of one split
\* strangle trade
StrangleLegs(s, lc, lp) ==
    /\ LongAndShort(lc, s) /\ LongAndShort(lp, s)
    /\ LegQuote(lc).option_type = "C" /\ LegQuote(lp).option_type = "P"

\* x is strictly above (below) the implied spot
\* short strike * (1 + short pct_from_strike)
AboveSpot(x, short) ==
    /\ IsNum(x) /\ SpotKnown(short)
    /\ PctUnit * x > short.strike * (PctUnit + short.pct_from_strike)

BelowSpot(x, short) ==
    /\ IsNum(x) /\ SpotKnown(short)
    /\ PctUnit * x < short.strike * (PctUnit + short.pct_from_strike)

\* the long legs together cost at most the short premium, every price present
Financed(s, lc, lp) ==
    /\ IsNum(LegQuote(lc).price) /\ IsNum(LegQuote(lp).price)
    /\ Le(LegQuote(lc).price + LegQuote(lp).price, LegQuote(s).price)

\* C12: for every trade_filter_id in the output of
\* find_call_split_strangle_ids, long-call price + long-put price <=
\* short-call price, the long call's strike is strictly above and the long
\* put's strike strictly below the implied spot = short_strike * (1 + short
\* pct_from_strike); a trade with a missing price or, on a chain carrying
\* strike, a missing strike is not in the output.
StrangleFinancedAndOtm ==
    (pc = "done" /\ strategy = "split_strangle") =>
        \A s, lc, lp \in OutRows :
            StrangleLegs(s, lc, lp) =>
                /\ Financed(s, lc, lp)
                /\ "strike" \in opt_cols =>
                      /\ AboveSpot(LegQuote(lc).strike, LegQuote(s))
                      /\ BelowSpot(LegQuote(lp).strike, LegQuote(s))

\* ------------------------------------------------------------------ C13
\* the chain rows a trade's legs can be taken from
QuotesFor(ep) ==
    {i \in DOMAIN options_data :
        /\ options_data[i].ticker = ep.ticker
        /\ options_data[i].date = ep.episode_end_date}

\* no trade can obtain a complete set of legs: there is no trade, or every
\* trade finds fewer contracts on its (ticker, date) than the strategy has
\* legs (none at all when the chain is empty)
NoCompleteTrade ==
    \A k \in 1..Len(trade_filter) :
        Cardinality(QuotesFor(trade_filter[k])) < LegCount(strategy)

\* C13: for every strategy builder and every input in which no trade
\* obtains a complete, sanity-passing set of legs, the builder returns the
\* empty table with index levels (id, date, trade_filter_id) and columns
\* (ticker, quantity, direction) and raises no exception.
EmptyTableNotException ==
    (pc = "done" /\ strategy \in StrategyNames /\ NoCompleteTrade) =>
        pos_out = EmptyPositions

\* the builders other than find_backspread_ids return the empty table on
\* these inputs
EmptyTableExceptBackspread ==
    (pc = "done" /\ strategy \in StrategyNames \ {"backspread"}
        /\ NoCompleteTrade) =>
        pos_out = EmptyPositions

\* ------------------------------------------------------------------ C14
\* the call has a target_kind other than 'pct' or 'price', requests without
\* the target column of its target_kind, or a price_col the chain lacks
BadConfiguration ==
    \/ kwargs.target_kind \notin {"pct", "price"}
    \/ TargetColumn(kwargs.target_kind) \notin req_cols
    \/ PriceColOf(kwargs) \notin PriceCols

\* C14: select_option_contracts_batch raises a configuration error whenever
\* it is called with a target_kind other than 'pct' or 'price', with
\* requests lacking the target column required by target_kind, or with a
\* price_col absent from the option chain, for every option chain and
\* request table, empty tables and inputs without a surviving candidate
\* included; it never returns a result table in these cases.
ConfigurationErrorRaised ==
    (pc = "done" /\ BadConfiguration) => sel_error # "none"

\* the configuration error is raised when the chain, the requests and the
\* candidates left by the filters are not empty
ConfigurationErrorOnCandidates ==
    (pc = "done" /\ BadConfiguration
        /\ Filtered(options_data, opt_cols, requests, kwargs) # {})
        => sel_error \in {"KeyError", "ValueError"}

LegPnl == pnl_out.table

PnlReturned == pc = "done" /\ pnl_kwargs # <<>> /\ risk_out = <<>> /\ pnl_out.error = "none"

\* +1 for a Long and -1 for a Short direction
LongDirections == {"L", "long"}
ShortDirections == {" s "}
SideOf(n) ==
    IF option_chains.rows[n].direction \in LongDirections THEN 1
    ELSE IF option_chains.rows[n].direction \in ShortDirections THEN 0 - 1
    ELSE 0

\* side_sign * px * |quantity| * multiplier of row n
Signed(n, px) ==
    Mul(Mul(Mul(SideOf(n), px), Abs(option_chains.rows[n].quantity)), LegPnl[n].multiplier_used)

\* |entry_price| * |quantity| * multiplier of row n
EntryNotional(n) ==
    IF IsNum(LegPnl[n].entry_price)
    THEN Mul(Mul(Abs(LegPnl[n].entry_price), Abs(option_chains.rows[n].quantity)), LegPnl[n].multiplier_used)
    ELSE NaN

CostValuePnl(n) ==
    /\ LegPnl[n].side_sign = SideOf(n)
    /\ LegPnl[n].leg_cost = Signed(n, LegPnl[n].entry_price)
    /\ LegPnl[n].leg_value = Signed(n, LegPnl[n].price)
    /\ LegPnl[n].pnl = Minus(LegPnl[n].leg_value, LegPnl[n].leg_cost)

TruncIn == option_chains.rows
TruncOut == pnl_out.table.rows

TruncReturned == pc = "done" /\ pnl_out.error = "none"

TruncTrades == {TruncIn[n].trade_filter_id : n \in 1..Len(TruncIn)}

\* the pnl of input row n: side * (price - entry price) * |quantity| * 100
RowPnl(n) ==
    Mul(Mul(IF TruncIn[n].direction = "L" THEN 1 ELSE 0 - 1,
            Minus(TruncIn[n].mark, TruncIn[n].entry_mark_price)),
        Abs(TruncIn[n].quantity) * 100)

\* the entry notional of a trade: |entry price| * |quantity| * 100 summed
\* over its legs, each leg once
EntryTotal(tid) ==
    LET legs == {<<TruncIn[n].id, TruncIn[n].entry_mark_price, TruncIn[n].quantity>> :
                     n \in RowsOfTrade(TruncIn, tid)}
    IN  SumSkipNa([leg \in legs |-> Abs(leg[2]) * Abs(leg[3]) * 100], legs)

\* trade_pnl_pct of a trade on a date: the legs' pnl of that date summed,
\* over the trade's entry notional
PctOn(tid, date) ==
    Quotient(SumSkipNa([n \in RowsOnDate(TruncIn, tid, date) |-> RowPnl(n)],
                       RowsOnDate(TruncIn, tid, date)),
             IF EntryTotal(tid) = 0 THEN NaN ELSE EntryTotal(tid))

\* trade_pnl_pct <= -|stop_loss| or >= |take_profit| on that date
HitOn(tid, date) ==
    \/ Given(pnl_kwargs.stop_loss) /\ LeQ(PctOn(tid, date), NegQ(AbsQ(pnl_kwargs.stop_loss)))
    \/ Given(pnl_kwargs.take_profit) /\ LeQ(AbsQ(pnl_kwargs.take_profit), PctOn(tid, date))

HitDatesOf(tid) == {date \in {TruncIn[n].date : n \in RowsOfTrade(TruncIn, tid)} : HitOn(tid, date)}

\* the rows of the sequence that are in the set, in the sequence's order
RECURSIVE Among(_, _)
Among(rows, S) ==
    IF rows = <<>> THEN <<>>
    ELSE (IF Head(rows) \in S THEN <<Head(rows)>> ELSE <<>>) \o Among(Tail(rows), S)

Retained == {TruncOut[n] : n \in 1..Len(TruncOut)}

\* ------------------------------------------------------------------ C17

\* of a trade hit on these dates the rows before the earliest of them remain
OnlyBefore(tid, hits) ==
    hits # {} =>
        \A n \in RowsOfTrade(TruncIn, tid) :
            TruncIn[n] \in Retained <=> TruncIn[n].date < Earliest(hits)

\* C17: of a trade whose trade_pnl_pct first reaches the stop-loss or the
\* take-profit on date d, only the rows dated strictly before d remain: the
\* rows dated d are dropped together with all later rows
HitDateDropped ==
    TruncReturned =>
        \A tid \in TruncTrades : OnlyBefore(tid, HitDatesOf(tid))

\* ------------------------------------------------------------------ C18

\* of a trade hit on these dates the rows after the earliest of them are
\* removed and the rows before it are kept; not hit, all its rows are kept
CutAfter(tid, hits) ==
    \A n \in RowsOfTrade(TruncIn, tid) :
        IF hits = {} THEN TruncIn[n] \in Retained
        ELSE /\ TruncIn[n].date > Earliest(hits) => TruncIn[n] \notin Retained
             /\ TruncIn[n].date < Earliest(hits) => TruncIn[n] \in Retained

\* C18: truncation only removes rows and alters none; of a trade with a hit
\* every row dated after the earliest hit date is removed and every row dated
\* before it is kept; every row of a trade with no hit is kept; with neither
\* threshold given the input is returned unchanged
OnlyLaterRowsRemoved ==
    TruncReturned =>
        /\ pnl_out.table = [option_chains EXCEPT !.rows = Among(TruncIn, Retained)]
        /\ \A tid \in TruncTrades : CutAfter(tid, HitDatesOf(tid))
        /\ (~Given(pnl_kwargs.stop_loss) /\ ~Given(pnl_kwargs.take_profit)) =>
              pnl_out.table = option_chains

\* a trade of two legs hit on its second date, on its third date too, lost
\* its third date and kept its first, beside a trade that is never hit and
\* kept all its rows, the rows given latest date first
WitnessTruncated ==
    /\ TruncReturned
    /\ TruncTrades = {1, 2}
    /\ TruncIn[1].date > TruncIn[Len(TruncIn)].date
    /\ Cardinality({TruncIn[n].id : n \in RowsOfTrade(TruncIn, 1)}) = 2
    /\ HitDatesOf(1) = {2, 3}
    /\ HitDatesOf(2) = {}
    /\ {TruncOut[n].date : n \in RowsOfTrade(TruncOut, 1)} = {1, 2}
    /\ Cardinality(RowsOfTrade(TruncOut, 2)) = Cardinality(RowsOfTrade(TruncIn, 2))

\* ------------------------------------------------- the risk of a trade

RiskReturned == pc = "done" /\ risk_out # <<>>

RiskLegsIn == leg_snap.rows

\* every leg of the trade is a call or a put with a strike, and the
\* snapshot has the strike and option_type columns
AllLegsValid ==
    /\ {"strike", "option_type"} \subseteq leg_snap.cols
    /\ \A n \in 1..Len(RiskLegsIn) :
          /\ RiskLegsIn[n].option_type \in {"C", "call", "P", " p "}
          /\ IsNum(RiskLegsIn[n].strike)

CallLeg(n) == RiskLegsIn[n].option_type \in {"C", "call"}

\* side_sign * quantity * multiplier of leg n
Weight(n) ==
    RiskLegsIn[n].side_sign * RiskLegsIn[n].quantity_abs
    * (IF "multiplier_used" \in leg_snap.cols THEN RiskLegsIn[n].multiplier_used ELSE 100)

\* the sum over the call legs of side_sign * quantity * multiplier
CallSlope == SumSeq([n \in 1..Len(RiskLegsIn) |-> IF CallLeg(n) THEN Weight(n) ELSE 0])

\* ------------------------------------------------------------------ C19

\* C19: for a trade with valid legs, unbounded_risk is true and
\* max_trade_loss is +infinity exactly when the sum over the call legs of
\* side_sign * quantity * multiplier is negative, and unbounded_gain is true
\* and max_trade_gain is +infinity exactly when that sum is positive
UnboundedBySlope ==
    (RiskReturned /\ AllLegsValid) =>
        /\ risk_out[1].unbounded_risk <=> CallSlope < 0
        /\ risk_out[1].max_trade_loss = Inf <=> CallSlope < 0
        /\ risk_out[1].unbounded_gain <=> CallSlope > 0
        /\ risk_out[1].max_trade_gain = Inf <=> CallSlope > 0

\* a single short call, strike 100, quantity 1, multiplier 100, cost basis
\* -500, has unbounded_risk true and max_trade_gain 500
WitnessShortCall ==
    /\ RiskReturned
    /\ AllLegsValid
    /\ RiskLegsIn = <<ExampleShortCall>>
    /\ trade_cost[1] = 0 - 500
    /\ risk_out[1].unbounded_risk
    /\ risk_out[1].max_trade_loss = Inf
    /\ ~risk_out[1].unbounded_gain
    /\ risk_out[1].max_trade_gain = 500

\* ------------------------------------------------------------------ C20

MaxBeyond == 3     \* terminal prices run to MaxBeyond above the highest strike

\* every terminal price from 0 to MaxBeyond above the highest strike
AllPrices ==
    0..(MaxBeyond + CHOOSE k \in {RiskLegsIn[n].strike : n \in 1..Len(RiskLegsIn)} :
                        \A n \in 1..Len(RiskLegsIn) : RiskLegsIn[n].strike <= k)

\* payoff(S): the sum over the legs of side_sign * quantity * multiplier *
\* max(0, S - strike) for a call, max(0, strike - S) for a put
Payoff(S) ==
    SumSeq([n \in 1..Len(RiskLegsIn) |->
               Weight(n) * (IF CallLeg(n) THEN Max2(0, S - RiskLegsIn[n].strike)
                            ELSE Max2(0, RiskLegsIn[n].strike - S))])

\* payoff(S) - trade_cost at every terminal price
PnlAtAllPrices == {Payoff(S) - trade_cost[1] : S \in AllPrices}

\* the loss and the gain that the extrema of a set of outcomes give
LossOf(pnls) == Max2(0, 0 - MinPnl(pnls))
GainOf(pnls) == Max2(0, MaxPnl(pnls))

\* C20: for a trade whose call slope is not negative, max_trade_loss is
\* max(0, -min over all terminal prices of payoff - trade_cost), and for a
\* trade whose call slope is not positive, max_trade_gain is max(0, max over
\* all terminal prices of payoff - trade_cost)
ExtremaOverAllPrices ==
    (RiskReturned /\ AllLegsValid) =>
        /\ CallSlope >= 0 => risk_out[1].max_trade_loss = LossOf(PnlAtAllPrices)
        /\ CallSlope <= 0 => risk_out[1].max_trade_gain = GainOf(PnlAtAllPrices)

\* a long call beside a short put: the call slope is positive, the largest
\* loss is at the terminal price 0 and at no strike, the gain is unbounded
WitnessExtrema ==
    /\ RiskReturned
    /\ AllLegsValid
    /\ Len(RiskLegsIn) = 2
    /\ CallSlope > 0
    /\ \E n \in 1..2 : ~CallLeg(n) /\ RiskLegsIn[n].side_sign < 0
    /\ risk_out[1].max_trade_loss > 0
    /\ risk_out[1].max_trade_loss = 0 - (Payoff(0) - trade_cost[1])
    /\ \A n \in 1..2 : Payoff(RiskLegsIn[n].strike) > Payoff(0)
    /\ risk_out[1].max_trade_gain = Inf

\* ------------------------------------------------------------------ C27

\* the returned row of a trade_filter_id has the days_till_expiration, price,
\* pct_from_strike and strike of the chain row with the returned id
CopyOfChainRow(t) ==
    /\ options_data[sel_out[t].id].ticker = sel_out[t].ticker
    /\ options_data[sel_out[t].id].date = sel_out[t].date
    /\ sel_out[t].days_till_expiration = options_data[sel_out[t].id].days_till_expiration
    /\ sel_out[t].price = options_data[sel_out[t].id].price
    /\ sel_out[t].pct_from_strike = options_data[sel_out[t].id].pct_from_strike
    /\ "strike" \in opt_cols => sel_out[t].strike = options_data[sel_out[t].id].strike

\* C27: every row returned by select_option_contracts_batch is a copy of one
\* single option-chain row, the row with the returned id on the request's date
RowIsOneChainRow ==
    pc = "done" => \A t \in DOMAIN sel_out : CopyOfChainRow(t)

\* ------------------------------------------------------------------ C23

\* the returned rows of one key
ReturnedFor(key) == {r \in chains_out : r.id = key[1] /\ r.start_date = key[2]}

\* the returned row is the chain row it was made from
ChainRowOf(r) == [id |-> r.id, date |-> r.date, last |-> r.last, mark |-> r.mark]

\* x / baseline - 1, and 0 when the baseline is zero or missing
ChangeFrom(x, baseline) ==
    IF ~IsNum(baseline) \/ baseline = 0 THEN ZeroQ ELSE Quotient(x - baseline, baseline)

\* C23: for every key (id, entry_date) the output contains exactly the chain
\* rows of that id with date >= entry_date; the baseline of the group is the
\* last / mark of its earliest-dated row; every row has trade_last_pct_change =
\* last / baseline - 1 and trade_mark_pct_change = mark / baseline - 1, and
\* these are 0 whenever the baseline is zero or missing
BaselineIsFirstRow ==
    pc = "done" =>
        \A key \in keys :
            /\ {ChainRowOf(r) : r \in ReturnedFor(key)} = KeyRows(data, key)
            /\ \A r \in ReturnedFor(key) :
                  /\ r.entry_last_price = FirstRowValue(KeyRows(data, key), "last")
                  /\ r.entry_mark_price = FirstRowValue(KeyRows(data, key), "mark")
                  /\ IsNum(r.last) => r.trade_last_pct_change = ChangeFrom(r.last, r.entry_last_price)
                  /\ IsNum(r.mark) => r.trade_mark_pct_change = ChangeFrom(r.mark, r.entry_mark_price)

\* ------------------------------------------------------------------ C25

\* the candidates of one ticker, by their place in the candidate table
CandidatesOf(ticker) == {n \in 1..Len(candidates) : candidates[n].ticker = ticker}

\* earliest-finish interval scheduling over the ranges [start_pos, end_pos]:
\* repeatedly take the candidate that starts after the last taken end and
\* has the smallest end_pos, of those the one with the smallest start_pos
RECURSIVE EarliestFinish(_, _)
EarliestFinish(cands, last_end) ==
    IF {n \in cands : candidates[n].start_pos > last_end} = {} THEN {}
    ELSE LET compatible == {n \in cands : candidates[n].start_pos > last_end}
             first == CHOOSE n \in compatible : \A m \in compatible :
                          \/ candidates[n].end_pos < candidates[m].end_pos
                          \/ /\ candidates[n].end_pos = candidates[m].end_pos
                             /\ candidates[n].start_pos <= candidates[m].start_pos
         IN  {first} \cup EarliestFinish(cands \ {first}, candidates[first].end_pos)

\* the candidates of the set have pairwise disjoint ranges
NonOverlapping(S) ==
    \A n \in S : \A m \in S :
        n # m => \/ candidates[n].end_pos < candidates[m].start_pos
                 \/ candidates[m].end_pos < candidates[n].start_pos

\* C25: per ticker the candidates' end positions are non-decreasing in start
\* position, the greedy skip-ahead keeps exactly the episodes earliest-finish
\* interval scheduling keeps, and so a largest set of non-overlapping episodes
GreedyIsEarliestFinish ==
    pc = "done" =>
        \A t \in {"A", "B"} :
            /\ \A n \in CandidatesOf(t) : \A m \in CandidatesOf(t) :
                  candidates[n].start_pos <= candidates[m].start_pos
                      => candidates[n].end_pos <= candidates[m].end_pos
            /\ keep \cap CandidatesOf(t) = EarliestFinish(CandidatesOf(t), 0 - 1)
            /\ \A S \in SUBSET CandidatesOf(t) :
                  NonOverlapping(S) => Cardinality(S) <= Cardinality(keep \cap CandidatesOf(t))

\* ------------------------------------------------------------------ C26

\* C26: in every Position table a builder emits, whatever the parameters, a
\* row has direction Short exactly when its stored quantity is negative and
\* direction Long exactly when its stored quantity is positive
DirectionIsQuantitySign ==
    (pc = "done" /\ pos_out.error = "none") =>
        \A n \in OutRows :
            /\ OutTable[n].direction = "S" <=> OutTable[n].quantity < 0
            /\ OutTable[n].direction = "L" <=> OutTable[n].quantity > 0

\* ------------------------------------------------------------------ C29

\* C29: truncate_trades_on_stops applied to its own output with the same
\* stop_loss and take_profit returns that output unchanged
TruncateIdempotent ==
    pc = "again" => /\ pnl_out.error = "none"
                    /\ pnl_out.table = option_chains

\* ---------------------------------------------------- the trade series

TradeReturned == pc = "done" /\ pnl_out.error = "none"

\* the rows of pnl_trade's input that belong to a reported trade and are
\* dated up to the trade's last reported date
ReportedLegRows(row) ==
    {n \in RowsOfTrade(option_chains.rows, row.trade_filter_id) :
        option_chains.rows[n].date <= row.sell_date}

\* one record per leg of the reported trade, taken from the leg's first row:
\* side, call or put, strike, quantity, entry price, first date and the
\* multiplier in use
LegOfRow(r) ==
    [id |-> r.id,
     side |-> IF r.direction = "L" THEN 1 ELSE 0 - 1,
     call |-> IsCall(r),
     put |-> IsPut(r),
     strike |-> IF "strike" \in option_chains.cols THEN r.strike ELSE NaN,
     quantity |-> r.quantity,
     entry |-> r.entry_mark_price,
     start |-> r.date,
     mult |-> IF pnl_kwargs.multiplier_col \in option_chains.cols /\ IsNum(r[pnl_kwargs.multiplier_col])
              THEN r[pnl_kwargs.multiplier_col]
              ELSE pnl_kwargs.multiplier]

ReportedLegs(row) ==
    {[LegOfRow(option_chains.rows[Earliest({n \in ReportedLegRows(row) : option_chains.rows[n].id = id})])
         EXCEPT !.start = Earliest({option_chains.rows[n].date :
                                       n \in {i \in ReportedLegRows(row) : option_chains.rows[i].id = id}})] :
        id \in {option_chains.rows[n].id : n \in ReportedLegRows(row)}}

\* the slope of the payoff above the highest strike: the calls' side * qty * mult
NetCallSlope(legs) ==
    SumSkipNa([l \in legs |-> IF l.call THEN l.side * l.quantity * l.mult ELSE 0], legs)

\* the trade is on one ticker
SingleTicker(row) ==
    "ticker" \in option_chains.cols
        => Cardinality({option_chains.rows[n].ticker : n \in ReportedLegRows(row)}) = 1

\* the risk of the trade is defined: one ticker and a leg that is a call or a
\* put with a strike
RiskDefined(row, legs) ==
    /\ SingleTicker(row)
    /\ \E l \in legs : IsNum(l.strike) /\ (l.call \/ l.put)

\* short put < long put < short call < long call, quantity 1 each, one ticker
IsIronCondor(row, legs) ==
    /\ Cardinality(legs) = 4
    /\ SingleTicker(row)
    /\ \E sp, lp, sc, lc \in legs :
          /\ legs = {sp, lp, sc, lc}
          /\ sp.put /\ sp.side = 0 - 1
          /\ lp.put /\ lp.side = 1
          /\ sc.call /\ sc.side = 0 - 1
          /\ lc.call /\ lc.side = 1
          /\ sp.strike < lp.strike /\ lp.strike < sc.strike /\ sc.strike < lc.strike
          /\ \A l \in legs : l.quantity = 1 /\ l.mult = sp.mult

FiniteNonNegative(x) == IsNum(x) /\ 0 <= x /\ x < Inf

CondorBounded(row) ==
    /\ row.trade_n_legs = 4
    /\ FiniteNonNegative(row.max_trade_loss)
    /\ FiniteNonNegative(row.max_trade_gain)
    /\ row.unbounded_risk = FALSE
    /\ row.unbounded_gain = FALSE

\* ------------------------------------------------------------------ C21

RatioCase(row) ==
    /\ row.trade_pnl > 0
    /\ IsNum(row.max_trade_loss)
    /\ row.max_trade_loss # Inf
    /\ row.max_trade_loss # 0

\* C22: in every row pnl_trade returns gain_loss_ratio is trade_pnl /
\* max_trade_loss when trade_pnl > 0 and max_trade_loss is finite and not
\* zero, and 0 in every other case; it is always finite and >= 0.
GainLossRatioRule ==
    TradeReturned =>
        \A k \in 1..Len(pnl_out.table) :
            /\ RatioCase(pnl_out.table[k])
                  => pnl_out.table[k].gain_loss_ratio.num * pnl_out.table[k].max_trade_loss
                     = pnl_out.table[k].trade_pnl * pnl_out.table[k].gain_loss_ratio.den
            /\ ~RatioCase(pnl_out.table[k]) => pnl_out.table[k].gain_loss_ratio = ZeroQ
            /\ pnl_out.table[k].gain_loss_ratio.den > 0
            /\ pnl_out.table[k].gain_loss_ratio.num >= 0

\* a trade with a gain on one date and a loss on another, its maximum loss
\* finite and above zero
WitnessRatio ==
    /\ TradeReturned
    /\ \E k, j \in 1..Len(pnl_out.table) :
          /\ RatioCase(pnl_out.table[k])
          /\ pnl_out.table[k].gain_loss_ratio.num > 0
          /\ pnl_out.table[j].trade_pnl < 0
          /\ pnl_out.table[j].gain_loss_ratio = ZeroQ

\* ------------------------------------------------------------------ C24

\* side * entry price * quantity * multiplier, and its absolute value; missing
\* when the entry price is
CostOfLeg(l) == IF IsNum(l.entry) THEN l.side * l.entry * l.quantity * l.mult ELSE NaN
NotionalOfLeg(l) == IF IsNum(l.entry) THEN Abs(l.entry) * l.quantity * l.mult ELSE NaN

\* the legs the costs of a row are summed over: with dynamic_cost those first
\* seen on or before the row's date, without it all of them
LegsCounted(legs, date) ==
    IF pnl_kwargs.dynamic_cost THEN {l \in legs : l.start <= date} ELSE legs

CostsAreSums(row, legs) ==
    /\ row.trade_cost = SumSkipNa([l \in legs |-> CostOfLeg(l)], legs)
    /\ row.trade_entry_notional_abs = SumSkipNa([l \in legs |-> NotionalOfLeg(l)], legs)

\* C24: with dynamic_cost = true, on every trade date d trade_cost is the sum
\* of leg_cost and trade_entry_notional_abs the sum of entry_notional_abs over
\* exactly the legs whose first-seen date is <= d; with dynamic_cost = false
\* both are the sums over all legs of the trade, on every date.
CostOverStartedLegs ==
    TradeReturned =>
        \A k \in 1..Len(pnl_out.table) :
            \A legs \in {ReportedLegs(pnl_out.table[k])} :
                CostsAreSums(pnl_out.table[k], LegsCounted(legs, pnl_out.table[k].date))

\* ------------------------------------------------------------------ C28

\* a reported percentage at or beyond a threshold; -inf and inf are beyond
AtStop(pct, args) ==
    /\ Given(args.stop_loss)
    /\ \/ pct.den = 0 /\ pct.num < 0
       \/ LeQ(pct, NegQ(AbsQ(args.stop_loss)))

AtTake(pct, args) ==
    /\ Given(args.take_profit)
    /\ \/ pct.den = 0 /\ pct.num > 0
       \/ LeQ(AbsQ(args.take_profit), pct)

\* a row before the trade's last reported date whose trade_pnl_pct is at or
\* beyond a threshold
EarlyHit(row) ==
    /\ row.date # row.sell_date
    /\ AtStop(row.trade_pnl_pct, pnl_kwargs) \/ AtTake(row.trade_pnl_pct, pnl_kwargs)

\* C28: with truncate = true and a stop_loss s and/or a take_profit p, no date
\* of a trade other than its last retained date is reported with
\* trade_pnl_pct <= -|s| or >= |p|, for every input, per-leg multipliers
\* through multiplier_col and dynamic_cost = true included.
NoHitBeforeLastDate ==
    (TradeReturned /\ pnl_kwargs.truncate) =>
        \A k \in 1..Len(pnl_out.table) : ~EarlyHit(pnl_out.table[k])

\* ------------------------------------------------------------------ C30

\* every leg of every trade of the table is first seen on the same date
SameStart(rows) ==
    \A n, i \in 1..Len(rows) :
        rows[n].trade_filter_id = rows[i].trade_filter_id
            => Earliest({rows[j].date : j \in RowsOfLeg(rows, rows[n].trade_filter_id, rows[n].id)})
               = Earliest({rows[j].date : j \in RowsOfLeg(rows, rows[i].trade_filter_id, rows[i].id)})

SameCostColumns(a, b) ==
    /\ a.trade_filter_id = b.trade_filter_id
    /\ a.date = b.date
    /\ a.trade_cost = b.trade_cost
    /\ a.trade_entry_notional_abs = b.trade_entry_notional_abs
    /\ a.trade_pnl_pct = b.trade_pnl_pct
    /\ a.trade_value = b.trade_value

\* C30: when every leg of every trade has the same first-seen date, pnl_trade
\* with dynamic_cost = true returns on every row the same trade_cost,
\* trade_entry_notional_abs, trade_pnl_pct and trade_value as with
\* dynamic_cost = false, trades with a zero total entry notional included.
DynamicCostSameAsConstant ==
    (pc = "again" /\ SameStart(option_chains.rows)) =>
        /\ pnl_out.error = leg_snap.error
        /\ Len(pnl_out.table) = Len(leg_snap.table)
        /\ \A k \in 1..Len(pnl_out.table) : SameCostColumns(leg_snap.table[k], pnl_out.table[k])

====
